---------------------------- MODULE Spec2Model ----------------------------
(***************************************************************************)
(* The resource provisioner (provisioner/src/lib.rs, error.rs) as a state  *)
(* machine.  A task is one in-flight RPC handler; every action performs    *)
(* the backend call the handler is suspended on and runs the handler's     *)
(* code up to its next await.  The backends (Postgres, MongoDB, RDS, IAM,  *)
(* STS, DynamoDB, the state directory) are shared variables; every backend *)
(* call may also fail for a reason of its own (the ok \in BOOLEAN input).  *)
(***************************************************************************)
EXTENDS Integers, Sequences, FiniteSets, TLC

VARIABLES
    pc,        \* pc[t]: the await the handler of task t is suspended on
    req,       \* req[t]: the request task t is serving
    loc,       \* loc[t]: the handler's local variables
    result,    \* result[t]: what the handler returned (Result<Response, Status>)
    issued,    \* issued[t]: the backend calls the current handler has issued
    hist,      \* the two calls finished before the latest one, oldest first
    calls,     \* number of requests received so far
    pwCount,   \* number of passwords generate_password has handed out
    pgRoles,   \* shared Postgres: role name -> password
    pgDbs,     \* shared Postgres: database name -> [owner, revoked]
    mongoUsers, \* shared MongoDB: <<database, user>> -> password
    rds,       \* RDS: instance identifier -> the instance's description
    region,    \* the AWS clients' default region, fixed at construction
    iamPolicies, \* IAM: the policy names that exist
    iamUsers,  \* IAM: the user names that exist
    iamAttached, \* IAM: <<user name, policy ARN>> attachments
    iamKeys,   \* IAM: the live access keys, [user, id, secret]
    keyCount,  \* number of access keys IAM has created
    files,     \* the state directory: file name -> contents
    tables     \* DynamoDB: the table names that exist

vars ==
    <<pc, req, loc, result, issued, hist, calls, pwCount, pgRoles, pgDbs, mongoUsers, rds,
      region, iamPolicies, iamUsers, iamAttached, iamKeys, keyCount, files, tables>>

pgState == <<pgRoles, pgDbs>>

sharedState == <<pgRoles, pgDbs, mongoUsers>>

iamState == <<iamPolicies, iamUsers, iamAttached, iamKeys, keyCount>>

dynState == <<iamPolicies, iamUsers, iamAttached, iamKeys, keyCount, files, tables>>

backend ==
    <<pgRoles, pgDbs, mongoUsers, rds,
      iamPolicies, iamUsers, iamAttached, iamKeys, keyCount, files, tables>>

-----------------------------------------------------------------------------
(* Bounds *)

MaxCalls == 2
MaxCallsShared == 4
MaxCallsRds == 3
MaxCallsDynamo == 4
MaxCallsStores == 2
MaxCallsConcurrent == 3
MaxKeysPerUser == 2
MaxTables == 1
PageSize == 2

Tasks == {1, 2}
Projects == {"a", "b"}

-----------------------------------------------------------------------------
(* Requests *)

Scopes == {"ResourcesWrite", "Resources"}

NoClaim == [present |-> FALSE, scopes |-> {}]

Claims == {NoClaim} \cup {[present |-> TRUE, scopes |-> s] : s \in SUBSET Scopes}

WriteClaim == [present |-> TRUE, scopes |-> {"ResourcesWrite"}]

PgTypes == {<<"Shared", "Postgres">>}

MongoTypes == {<<"Shared", "Mongodb">>}

SharedTypes == PgTypes \cup MongoTypes

RdsTypes == {<<"AwsRds", "Postgres">>, <<"AwsRds", "Mysql">>, <<"AwsRds", "Mariadb">>}

\* a request whose db_type oneof, or whose engine oneof, is not set
UnsetTypes == {<<"None", "None">>, <<"Shared", "None">>}

NoType == <<"-", "-">>

Request(op, p, ty, c) ==
    [op |-> op, project_name |-> p, db_type |-> ty[1], engine |-> ty[2], claim |-> c]

NoRequest == Request("-", "-", NoType, NoClaim)

-----------------------------------------------------------------------------
(* Name derivation: a name is the tuple of the pieces format! concatenates *)

RoleName(project_name) == <<"user-", project_name>>

DbName(project_name) == <<"db-", project_name>>

MongoDbName(project_name) == <<"mongodb-", project_name>>

\* the engine's Display string
EngineString(engine) ==
    CASE engine = "Postgres" -> "postgres"
      [] engine = "Mysql" -> "mysql"
      [] engine = "Mariadb" -> "mariadb"

\* format!("{}-{}", project_name, engine)
InstanceName(project_name, engine) == <<project_name, "-", EngineString(engine)>>

\* the database name inside the instance: the engine string, but "msql" for MySQL
RdsDbName(engine) == IF engine = "Mysql" THEN "msql" ELSE EngineString(engine)

engine_to_port(engine) ==
    CASE engine = "Postgres" -> "5432"
      [] engine = "Mariadb" -> "3306"
      [] engine = "Mysql" -> "3306"

\* get_prefix: base64url_unpadded(sha256(project_name)), abstracted to an
\* injective table of short tokens over the base64url alphabet
get_prefix(project_name) ==
    CASE project_name = "a" -> <<"L", "P">>
      [] project_name = "b" -> <<"Q", "1">>

get_dynamodb_policy_name(prefix) == <<prefix, "-dynamo-policy">>

get_iam_identity_user_name(prefix) == <<prefix, "-dynamo-user">>

\* the account STS GetCallerIdentity reports
Account == "123456789012"

PolicyArn(account, policy_name) == <<"arn:aws:iam::", account, ":policy/", policy_name>>

\* provisioner_state, as the string the file name is concatenated from
StateDir == "state/"

get_access_key_file_name(prefix) == <<StateDir, prefix, ".txt">>

\* partial functions: the objects that exist in a backend
Empty == [x \in {} |-> 0]

Put(f, k, v) == [x \in DOMAIN f \cup {k} |-> IF x = k THEN v ELSE f[x]]

Drop(f, ks) == [x \in DOMAIN f \ ks |-> f[x]]

-----------------------------------------------------------------------------
(* Results *)

OkResult(body) == [tag |-> "Ok", code |-> "ok", message |-> "", kind |-> "", body |-> body]

StatusResult(code, message, kind) ==
    [tag |-> "Err", code |-> code, message |-> message, kind |-> kind, body |-> <<>>]

\* a panic (unwrap/expect on None): the handler returns no status of its own
PanicResult == [tag |-> "Panic", code |-> "-", message |-> "", kind |-> "", body |-> <<>>]

NoResult == [tag |-> "-", code |-> "-", message |-> "", kind |-> "", body |-> <<>>]

\* mutant: the status tells the error's kind
ErrorToStatus_LeakKind(kind) == StatusResult("internal", kind, kind)

\* impl From<Error> for Status: every driver error becomes the same status
ErrorToStatus(kind) == StatusResult("internal", "failed to provision a database", kind)

\* mutant: any claim passes, whatever its scopes
verify_claim_ScopeUnchecked(r) ==
    IF ~r.claim.present
    THEN StatusResult("internal", "could not get claim", "")
    ELSE NoResult

\* mutant: a missing claim is reported as a missing scope
verify_claim_MissingIsDenied(r) ==
    IF ~r.claim.present \/ "ResourcesWrite" \notin r.claim.scopes
    THEN StatusResult("permission_denied", "does not have resource allocation scope", "")
    ELSE NoResult

\* verify_claim: Ok (NoResult) or the status it fails with
verify_claim(r) ==
    IF ~r.claim.present
    THEN StatusResult("internal", "could not get claim", "")
    ELSE IF "ResourcesWrite" \in r.claim.scopes
         THEN NoResult
         ELSE StatusResult("permission_denied", "does not have resource allocation scope", "")

\* conf().region(): None when no default region is configured
NoRegion == "None"

Regions == {NoRegion, "eu-west-2"}

NoLoc ==
    [username |-> <<>>, password |-> 0, database_name |-> <<>>, i |-> 0,
     instance_name |-> <<>>, wait_for |-> "-",
     prefix |-> <<>>, next |-> "-", policy_arn |-> <<>>, key |-> <<>>,
     cursor |-> <<>>, page |-> <<>>, slept |-> 0]

Init ==
    /\ pc = [t \in Tasks |-> "idle"]
    /\ req = [t \in Tasks |-> NoRequest]
    /\ loc = [t \in Tasks |-> NoLoc]
    /\ result = [t \in Tasks |-> NoResult]
    /\ issued = [t \in Tasks |-> <<>>]
    /\ hist = <<>>
    /\ calls = 0
    /\ pwCount = 0
    /\ pgRoles = Empty
    /\ pgDbs = Empty
    /\ mongoUsers = Empty
    /\ rds = Empty
    /\ region \in Regions
    /\ iamPolicies = {}
    /\ iamUsers = {}
    /\ iamAttached = {}
    /\ iamKeys = {}
    /\ keyCount = 0
    /\ files = Empty
    /\ tables = {}

-----------------------------------------------------------------------------
(* Handler plumbing *)

Idle(t) == pc[t] \in {"idle", "done"}

\* the last two elements of a sequence
LastTwo(q) == IF Len(q) <= 2 THEN q ELSE SubSeq(q, Len(q) - 1, Len(q))

\* a request r arrives at an idle task while fewer than k.max were received
Receive(t, r, k) ==
    /\ Idle(t)
    /\ calls < k.max
    /\ calls' = calls + 1
    /\ req' = [req EXCEPT ![t] = r]
    /\ hist' = IF k.history /\ pc[t] = "done"
               THEN LastTwo(Append(hist, [req |-> req[t], result |-> result[t],
                                          issued |-> issued[t]]))
               ELSE hist

\* the handler returns res, having issued the calls iss
Finish(t, res, iss) ==
    /\ pc' = [pc EXCEPT ![t] = "done"]
    /\ result' = [result EXCEPT ![t] = res]
    /\ issued' = [issued EXCEPT ![t] = iss]
    /\ UNCHANGED region

\* the handler suspends on its next await
Continue(t, label, iss) ==
    /\ pc' = [pc EXCEPT ![t] = label]
    /\ result' = [result EXCEPT ![t] = NoResult]
    /\ issued' = [issued EXCEPT ![t] = iss]
    /\ UNCHANGED region

\* after the backend call `call`: return, or go on to the next await
Return(t, res, call) ==
    /\ Finish(t, res, Append(issued[t], call))
    /\ UNCHANGED <<req, calls, hist>>

Goto(t, label, call) ==
    /\ Continue(t, label, Append(issued[t], call))
    /\ UNCHANGED <<req, calls, hist>>

\* the `?` on a driver error: From<Error> for Status
Fail(t, kind, call) == Return(t, ErrorToStatus(kind), call)

\* generate_password: a password no earlier call was given
generate_password == pwCount + 1

-----------------------------------------------------------------------------
(* Shared Postgres: shared_pg_role, shared_pg *)

\* An issued call is <<backend, operation, target, outcome>>.  The outcome is
\* "fault" when the call failed for a reason of the backend's own (ok = FALSE),
\* "refused" when the backend's state does not allow it, else what it answered.
Outcome(ok, allowed) == IF ~ok THEN "fault" ELSE IF allowed THEN "ok" ELSE "refused"

PgResponse(l) ==
    [engine |-> "postgres", username |-> l.username, password |-> l.password,
     database_name |-> l.database_name, address_private |-> "internal_pg_address",
     address_public |-> "fqdn", port |-> "5432"]

RevokeStmts ==
    <<"REVOKE ALL ON pg_user FROM public;",
      "REVOKE ALL ON pg_roles FROM public;",
      "REVOKE ALL ON pg_database FROM public;">>

\* mutant: the branch on is_none is taken the wrong way round
shared_pg_role_select_Swapped(t) ==
    /\ pc[t] = "pg_role_select"
    /\ \E ok \in BOOLEAN :
        LET out == IF ~ok THEN "fault"
                   ELSE IF loc[t].username \in DOMAIN pgRoles THEN "row" ELSE "none"
            call == <<"pg", "SELECT rolname", loc[t].username, out>> IN
        CASE out = "fault" -> Fail(t, "UnexpectedSqlx", call)
          [] out = "none" -> Goto(t, "pg_role_alter", call)
          [] out = "row" -> Goto(t, "pg_role_create", call)
    /\ UNCHANGED <<loc, pwCount, backend>>

\* SELECT rolname FROM pg_roles WHERE rolname = $1, then the branch on is_none
shared_pg_role_select(t) ==
    /\ pc[t] = "pg_role_select"
    /\ \E ok \in BOOLEAN :
        LET out == IF ~ok THEN "fault"
                   ELSE IF loc[t].username \in DOMAIN pgRoles THEN "row" ELSE "none"
            call == <<"pg", "SELECT rolname", loc[t].username, out>> IN
        CASE out = "fault" -> Fail(t, "UnexpectedSqlx", call)
          [] out = "none" -> Goto(t, "pg_role_create", call)
          [] out = "row" -> Goto(t, "pg_role_alter", call)
    /\ UNCHANGED <<loc, pwCount, backend>>

\* shared_pg begins: the handler goes on to SELECT datname
shared_pg_begin(t) ==
    loc' = [loc EXCEPT ![t].database_name = DbName(req[t].project_name)]

\* CREATE ROLE "{username}" WITH LOGIN PASSWORD '{password}'
shared_pg_role_create(t) ==
    /\ pc[t] = "pg_role_create"
    /\ \E ok \in BOOLEAN :
        LET out == Outcome(ok, loc[t].username \notin DOMAIN pgRoles)
            call == <<"pg", "CREATE ROLE", loc[t].username, out>> IN
        IF out = "ok"
        THEN /\ pgRoles' = Put(pgRoles, loc[t].username, loc[t].password)
             /\ shared_pg_begin(t)
             /\ Goto(t, "pg_db_select", call)
        ELSE /\ Fail(t, "CreateRole", call)
             /\ UNCHANGED <<pgRoles, loc>>
    /\ UNCHANGED <<pwCount, pgDbs, mongoUsers, rds, dynState>>

\* ALTER ROLE "{username}" WITH LOGIN PASSWORD '{password}'
shared_pg_role_alter_KeepPassword(t) ==
    /\ pc[t] = "pg_role_alter"
    /\ \E ok \in BOOLEAN :
        LET out == Outcome(ok, loc[t].username \in DOMAIN pgRoles)
            call == <<"pg", "ALTER ROLE", loc[t].username, out>> IN
        IF out = "ok"
        THEN /\ UNCHANGED pgRoles
             /\ shared_pg_begin(t)
             /\ Goto(t, "pg_db_select", call)
        ELSE /\ Fail(t, "UpdateRole", call)
             /\ UNCHANGED <<pgRoles, loc>>
    /\ UNCHANGED <<pwCount, pgDbs, mongoUsers, rds, dynState>>

shared_pg_role_alter(t) ==
    /\ pc[t] = "pg_role_alter"
    /\ \E ok \in BOOLEAN :
        LET out == Outcome(ok, loc[t].username \in DOMAIN pgRoles)
            call == <<"pg", "ALTER ROLE", loc[t].username, out>> IN
        IF out = "ok"
        THEN /\ pgRoles' = Put(pgRoles, loc[t].username, loc[t].password)
             /\ shared_pg_begin(t)
             /\ Goto(t, "pg_db_select", call)
        ELSE /\ Fail(t, "UpdateRole", call)
             /\ UNCHANGED <<pgRoles, loc>>
    /\ UNCHANGED <<pwCount, pgDbs, mongoUsers, rds, dynState>>

\* SELECT datname FROM pg_database WHERE datname = $1, then the branch on is_none
shared_pg_select(t) ==
    /\ pc[t] = "pg_db_select"
    /\ \E ok \in BOOLEAN :
        LET out == IF ~ok THEN "fault"
                   ELSE IF loc[t].database_name \in DOMAIN pgDbs THEN "row" ELSE "none"
            call == <<"pg", "SELECT datname", loc[t].database_name, out>> IN
        CASE out = "fault" -> Fail(t, "UnexpectedSqlx", call)
          [] out = "none" -> Goto(t, "pg_db_create", call)
          [] out = "row" -> Return(t, OkResult(PgResponse(loc[t])), call)
    /\ UNCHANGED <<loc, pwCount, backend>>

\* CREATE DATABASE "{database_name}" OWNER '{username}'
shared_pg_create(t) ==
    /\ pc[t] = "pg_db_create"
    /\ \E ok \in BOOLEAN :
        LET out == Outcome(ok, /\ loc[t].database_name \notin DOMAIN pgDbs
                               /\ loc[t].username \in DOMAIN pgRoles)
            call == <<"pg", "CREATE DATABASE", loc[t].database_name, out>> IN
        IF out = "ok"
        THEN /\ pgDbs' = Put(pgDbs, loc[t].database_name,
                             [owner |-> loc[t].username, revoked |-> <<>>])
             /\ Goto(t, "pg_connect", call)
        ELSE /\ Fail(t, "CreateDB", call)
             /\ UNCHANGED pgDbs
    /\ UNCHANGED <<loc, pwCount, pgRoles, mongoUsers, rds, dynState>>

\* options.connect(): a fresh connection to the new database
shared_pg_connect(t) ==
    /\ pc[t] = "pg_connect"
    /\ \E ok \in BOOLEAN :
        LET out == Outcome(ok, loc[t].database_name \in DOMAIN pgDbs)
            call == <<"pg", "CONNECT", loc[t].database_name, out>> IN
        IF out = "ok"
        THEN /\ loc' = [loc EXCEPT ![t].i = 1]
             /\ Goto(t, "pg_revoke", call)
        ELSE /\ Fail(t, "UnexpectedSqlx", call)
             /\ UNCHANGED loc
    /\ UNCHANGED <<pwCount, backend>>

\* for stmt in stmts { conn.execute(stmt) }: one statement per step
shared_pg_revoke(t) ==
    /\ pc[t] = "pg_revoke"
    /\ \E ok \in BOOLEAN :
        LET db == loc[t].database_name
            out == Outcome(ok, db \in DOMAIN pgDbs)
            call == <<"pg", RevokeStmts[loc[t].i], db, out>> IN
        IF out = "ok"
        THEN /\ pgDbs' = [pgDbs EXCEPT ![db].revoked = Append(@, RevokeStmts[loc[t].i])]
             /\ IF loc[t].i < Len(RevokeStmts)
                THEN /\ loc' = [loc EXCEPT ![t].i = @ + 1]
                     /\ Goto(t, "pg_revoke", call)
                ELSE /\ UNCHANGED loc
                     /\ Return(t, OkResult(PgResponse(loc[t])), call)
        ELSE /\ Fail(t, "CreateDB", call)
             /\ UNCHANGED <<pgDbs, loc>>
    /\ UNCHANGED <<pwCount, pgRoles, mongoUsers, rds, dynState>>

-----------------------------------------------------------------------------
(* Shared Postgres: delete_pg *)

\* mutant: the database is dropped and the role is left behind
delete_pg_drop_db_KindByStep(t) ==
    /\ pc[t] = "pg_drop_db"
    /\ \E ok \in BOOLEAN :
        LET out == Outcome(ok, loc[t].database_name \in DOMAIN pgDbs)
            call == <<"pg", "DROP DATABASE", loc[t].database_name, out>> IN
        IF out = "ok"
        THEN /\ pgDbs' = Drop(pgDbs, {loc[t].database_name})
             /\ Goto(t, "pg_drop_role", call)
        ELSE /\ Fail(t, "DeleteDB", call)
             /\ UNCHANGED pgDbs
    /\ UNCHANGED <<loc, pwCount, pgRoles, mongoUsers, rds, dynState>>

delete_pg_drop_db_Only(t) ==
    /\ pc[t] = "pg_drop_db"
    /\ \E ok \in BOOLEAN :
        LET out == Outcome(ok, loc[t].database_name \in DOMAIN pgDbs)
            call == <<"pg", "DROP DATABASE", loc[t].database_name, out>> IN
        IF out = "ok"
        THEN /\ pgDbs' = Drop(pgDbs, {loc[t].database_name})
             /\ Return(t, OkResult(<<>>), call)
        ELSE /\ Fail(t, "DeleteRole", call)
             /\ UNCHANGED pgDbs
    /\ UNCHANGED <<loc, pwCount, pgRoles, mongoUsers, rds, dynState>>

\* DROP DATABASE "{database_name}"; refused when there is no such database
\* (a database still connected to is a fault)
delete_pg_drop_db(t) ==
    /\ pc[t] = "pg_drop_db"
    /\ \E ok \in BOOLEAN :
        LET out == Outcome(ok, loc[t].database_name \in DOMAIN pgDbs)
            call == <<"pg", "DROP DATABASE", loc[t].database_name, out>> IN
        IF out = "ok"
        THEN /\ pgDbs' = Drop(pgDbs, {loc[t].database_name})
             /\ Goto(t, "pg_drop_role", call)
        ELSE /\ Fail(t, "DeleteRole", call)
             /\ UNCHANGED pgDbs
    /\ UNCHANGED <<loc, pwCount, pgRoles, mongoUsers, rds, dynState>>

\* DROP ROLE IF EXISTS "{role_name}"; refused while the role owns a database
delete_pg_drop_role(t) ==
    /\ pc[t] = "pg_drop_role"
    /\ \E ok \in BOOLEAN :
        LET out == Outcome(ok, \A d \in DOMAIN pgDbs : pgDbs[d].owner # loc[t].username)
            call == <<"pg", "DROP ROLE IF EXISTS", loc[t].username, out>> IN
        IF out = "ok"
        THEN /\ pgRoles' = Drop(pgRoles, {loc[t].username})
             /\ Return(t, OkResult([deleted |-> TRUE]), call)
        ELSE /\ Fail(t, "DeleteDB", call)
             /\ UNCHANGED pgRoles
    /\ UNCHANGED <<loc, pwCount, pgDbs, mongoUsers, rds, dynState>>

-----------------------------------------------------------------------------
(* Shared MongoDB: shared_mongodb, delete_mongodb *)

MongoResponse(l) ==
    [engine |-> "mongodb", username |-> l.username, password |-> l.password,
     database_name |-> l.database_name, address_private |-> "internal_mongodb_address",
     address_public |-> "fqdn", port |-> "27017"]

\* mutant: an existing user is an error like any other
shared_mongodb_create_user_UpdateOnAnyError(t) ==
    /\ pc[t] = "mongo_create_user"
    /\ \E ok \in BOOLEAN, has51003 \in BOOLEAN :
        LET key == <<loc[t].database_name, loc[t].username>>
            out == IF ok THEN (IF key \in DOMAIN mongoUsers THEN "51003" ELSE "ok")
                   ELSE (IF has51003 THEN "fault 51003" ELSE "fault")
            call == <<"mongo", "createUser", loc[t].username, out>> IN
        CASE out = "ok" ->
               /\ mongoUsers' = Put(mongoUsers, key, loc[t].password)
               /\ Return(t, OkResult(MongoResponse(loc[t])), call)
          [] OTHER ->
               /\ UNCHANGED mongoUsers
               /\ Goto(t, "mongo_update_user", call)
    /\ UNCHANGED <<loc, pwCount, pgState, rds, dynState>>

shared_mongodb_create_user_NoCycle(t) ==
    /\ pc[t] = "mongo_create_user"
    /\ \E ok \in BOOLEAN, has51003 \in BOOLEAN :
        LET key == <<loc[t].database_name, loc[t].username>>
            out == IF ok THEN (IF key \in DOMAIN mongoUsers THEN "51003" ELSE "ok")
                   ELSE (IF has51003 THEN "fault 51003" ELSE "fault")
            call == <<"mongo", "createUser", loc[t].username, out>> IN
        CASE out = "ok" ->
               /\ mongoUsers' = Put(mongoUsers, key, loc[t].password)
               /\ Return(t, OkResult(MongoResponse(loc[t])), call)
          [] OTHER ->
               /\ UNCHANGED mongoUsers
               /\ Fail(t, "UnexpectedMongodb", call)
    /\ UNCHANGED <<loc, pwCount, pgState, rds, dynState>>

\* createUser.  The server refuses an existing user with error 51003, whose
\* text contains "51003"; the text of another failure may contain it or not.
shared_mongodb_create_user(t) ==
    /\ pc[t] = "mongo_create_user"
    /\ \E ok \in BOOLEAN, has51003 \in BOOLEAN :
        LET key == <<loc[t].database_name, loc[t].username>>
            out == IF ok THEN (IF key \in DOMAIN mongoUsers THEN "51003" ELSE "ok")
                   ELSE (IF has51003 THEN "fault 51003" ELSE "fault")
            call == <<"mongo", "createUser", loc[t].username, out>> IN
        CASE out = "ok" ->
               /\ mongoUsers' = Put(mongoUsers, key, loc[t].password)
               /\ Return(t, OkResult(MongoResponse(loc[t])), call)
          [] out \in {"51003", "fault 51003"} ->
               /\ UNCHANGED mongoUsers
               /\ Goto(t, "mongo_update_user", call)
          [] out = "fault" ->
               /\ UNCHANGED mongoUsers
               /\ Fail(t, "UnexpectedMongodb", call)
    /\ UNCHANGED <<loc, pwCount, pgState, rds, dynState>>

\* updateUser with the new password
shared_mongodb_update_user(t) ==
    /\ pc[t] = "mongo_update_user"
    /\ \E ok \in BOOLEAN :
        LET key == <<loc[t].database_name, loc[t].username>>
            out == Outcome(ok, key \in DOMAIN mongoUsers)
            call == <<"mongo", "updateUser", loc[t].username, out>> IN
        IF out = "ok"
        THEN /\ mongoUsers' = Put(mongoUsers, key, loc[t].password)
             /\ Return(t, OkResult(MongoResponse(loc[t])), call)
        ELSE /\ Fail(t, "UnexpectedMongodb", call)
             /\ UNCHANGED mongoUsers
    /\ UNCHANGED <<loc, pwCount, pgState, rds, dynState>>

\* dropAllUsersFromDatabase: 1
delete_mongodb_drop_users(t) ==
    /\ pc[t] = "mongo_drop_users"
    /\ \E ok \in BOOLEAN :
        LET out == Outcome(ok, TRUE)
            call == <<"mongo", "dropAllUsersFromDatabase", loc[t].database_name, out>> IN
        IF out = "ok"
        THEN /\ mongoUsers' = Drop(mongoUsers,
                                   {k \in DOMAIN mongoUsers : k[1] = loc[t].database_name})
             /\ Goto(t, "mongo_drop_db", call)
        ELSE /\ Fail(t, "DeleteRole", call)
             /\ UNCHANGED mongoUsers
    /\ UNCHANGED <<loc, pwCount, pgState, rds, dynState>>

\* db.drop(None)
delete_mongodb_drop_db(t) ==
    /\ pc[t] = "mongo_drop_db"
    /\ \E ok \in BOOLEAN :
        LET out == Outcome(ok, TRUE)
            call == <<"mongo", "dropDatabase", loc[t].database_name, out>> IN
        IF out = "ok"
        THEN Return(t, OkResult([deleted |-> TRUE]), call)
        ELSE Fail(t, "DeleteDB", call)
    /\ UNCHANGED <<loc, pwCount, backend>>

-----------------------------------------------------------------------------
(* RDS: request_aws_rds, wait_for_instance, delete_aws_rds *)

\* how an SDK call may fail for a reason of its own: not at all, with an
\* Err(SdkError::ServiceError) of the service, or with another SdkError (a
\* timeout, a dispatch failure)
SdkFaults == {"none", "service_error", "sdk_error"}

\* the answer to a call on instance n that needs it to be available
RdsOutcome(fault, n) ==
    CASE fault # "none" -> fault
      [] n \notin DOMAIN rds -> "not_found"
      [] rds[n].status # "available" -> "invalid_state"
      [] OTHER -> "ok"

RdsResponse(l, r, instance) ==
    [engine |-> EngineString(r.engine), username |-> instance.master_username,
     password |-> l.password, database_name |-> instance.db_name,
     address_private |-> instance.address, address_public |-> instance.address,
     port |-> engine_to_port(r.engine)]

\* issued calls, with a poll repeated by the waiting loop listed once
Polled(iss, call) == IF iss # <<>> /\ iss[Len(iss)] = call THEN iss ELSE Append(iss, call)

\* mutant: every failure of ModifyDBInstance is taken for a missing instance
request_aws_rds_modify_CreateOnAnyError(t) ==
    /\ pc[t] = "rds_modify"
    /\ \E fault \in SdkFaults :
        LET n == loc[t].instance_name
            out == RdsOutcome(fault, n)
            call == <<"rds", "ModifyDBInstance", n, out>> IN
        CASE out = "ok" ->
               /\ rds' = [rds EXCEPT ![n].pending = loc[t].password]
               /\ loc' = [loc EXCEPT ![t].wait_for = "resetting-master-credentials"]
               /\ Goto(t, "rds_wait", call)
          [] OTHER ->
               /\ Goto(t, "rds_create", call)
               /\ UNCHANGED <<rds, loc>>
    /\ UNCHANGED <<pwCount, sharedState, dynState>>

\* mutant: after ModifyDBInstance the handler waits for available only
request_aws_rds_modify_NoTransientWait(t) ==
    /\ pc[t] = "rds_modify"
    /\ \E fault \in SdkFaults :
        LET n == loc[t].instance_name
            out == RdsOutcome(fault, n)
            call == <<"rds", "ModifyDBInstance", n, out>> IN
        CASE out = "ok" ->
               /\ rds' = [rds EXCEPT ![n].pending = loc[t].password]
               /\ loc' = [loc EXCEPT ![t].wait_for = "available"]
               /\ Goto(t, "rds_wait", call)
          [] out = "not_found" ->
               /\ Goto(t, "rds_create", call)
               /\ UNCHANGED <<rds, loc>>
          [] OTHER ->
               /\ Fail(t, "Plain", call)
               /\ UNCHANGED <<rds, loc>>
    /\ UNCHANGED <<pwCount, sharedState, dynState>>

\* ModifyDBInstance(identifier, master_user_password), then the match on its result
request_aws_rds_modify(t) ==
    /\ pc[t] = "rds_modify"
    /\ \E fault \in SdkFaults :
        LET n == loc[t].instance_name
            out == RdsOutcome(fault, n)
            call == <<"rds", "ModifyDBInstance", n, out>> IN
        CASE out = "ok" ->
               /\ rds' = [rds EXCEPT ![n].pending = loc[t].password]
               /\ loc' = [loc EXCEPT ![t].wait_for = "resetting-master-credentials"]
               /\ Goto(t, "rds_wait", call)
          [] out = "not_found" ->
               /\ Goto(t, "rds_create", call)
               /\ UNCHANGED <<rds, loc>>
          [] OTHER ->
               /\ Fail(t, "Plain", call)
               /\ UNCHANGED <<rds, loc>>
    /\ UNCHANGED <<pwCount, sharedState, dynState>>

\* CreateDBInstance(...)
request_aws_rds_create(t) ==
    /\ pc[t] = "rds_create"
    /\ \E ok \in BOOLEAN :
        LET n == loc[t].instance_name
            out == Outcome(ok, n \notin DOMAIN rds)
            call == <<"rds", "CreateDBInstance", n, out>> IN
        IF out = "ok"
        THEN /\ rds' = Put(rds, n, [status |-> "creating", password |-> loc[t].password,
                                    pending |-> 0, master_username |-> "master",
                                    engine |-> EngineString(req[t].engine),
                                    db_name |-> RdsDbName(req[t].engine),
                                    address |-> <<"endpoint", n>>])
             /\ loc' = [loc EXCEPT ![t].wait_for = "creating"]
             /\ Goto(t, "rds_wait", call)
        ELSE /\ Fail(t, "CreateRDSInstance", call)
             /\ UNCHANGED <<rds, loc>>
    /\ UNCHANGED <<pwCount, sharedState, dynState>>

\* wait_for_instance: one DescribeDBInstances of the loop, and what follows a match
wait_for_instance_ReturnAnyStatus(t) ==
    /\ pc[t] = "rds_wait"
    /\ \E ok \in BOOLEAN :
        LET n == loc[t].instance_name
            out == IF ~ok THEN "fault"
                   ELSE IF n \notin DOMAIN rds THEN "not_found" ELSE rds[n].status
            iss == Polled(issued[t], <<"rds", "DescribeDBInstances", n, out>>) IN
        IF out \in {"fault", "not_found"}
        THEN /\ Finish(t, ErrorToStatus("DescribeRDSInstance"), iss)
             /\ loc' = [loc EXCEPT ![t].slept = 0]
        ELSE IF loc[t].wait_for # "available"
        THEN /\ Continue(t, "rds_wait", iss)
             /\ loc' = [loc EXCEPT ![t].wait_for = "available", ![t].slept = 0]
        ELSE /\ Finish(t, OkResult(RdsResponse(loc[t], req[t], rds[n])), iss)
             /\ loc' = [loc EXCEPT ![t].slept = 0]
    /\ UNCHANGED <<req, calls, hist, pwCount, backend>>

wait_for_instance(t) ==
    /\ pc[t] = "rds_wait"
    /\ \E ok \in BOOLEAN :
        LET n == loc[t].instance_name
            out == IF ~ok THEN "fault"
                   ELSE IF n \notin DOMAIN rds THEN "not_found" ELSE rds[n].status
            iss == Polled(issued[t], <<"rds", "DescribeDBInstances", n, out>>) IN
        IF out \in {"fault", "not_found"}
        THEN /\ Finish(t, ErrorToStatus("DescribeRDSInstance"), iss)
             /\ loc' = [loc EXCEPT ![t].slept = 0]
        ELSE IF out # loc[t].wait_for
        THEN \* sleep(1 s), then poll again (slept: the parity of the sleeps so far)
             /\ Continue(t, "rds_wait", iss)
             /\ loc' = [loc EXCEPT ![t].slept = 1 - @]
        ELSE IF loc[t].wait_for # "available"
        THEN \* the transient status was seen: wait for up
             /\ Continue(t, "rds_wait", iss)
             /\ loc' = [loc EXCEPT ![t].wait_for = "available", ![t].slept = 0]
        ELSE /\ Finish(t, OkResult(RdsResponse(loc[t], req[t], rds[n])), iss)
             /\ loc' = [loc EXCEPT ![t].slept = 0]
    /\ UNCHANGED <<req, calls, hist, pwCount, backend>>

\* mutant: a missing instance is an error like any other service error
delete_aws_rds_FailOnNotFound(t) ==
    /\ pc[t] = "rds_delete"
    /\ \E fault \in SdkFaults :
        LET n == loc[t].instance_name
            out == RdsOutcome(fault, n)
            call == <<"rds", "DeleteDBInstance", n, out>> IN
        /\ rds' = IF out = "ok" THEN [rds EXCEPT ![n].status = "deleting"] ELSE rds
        /\ IF out \in {"service_error", "invalid_state", "not_found"}
           THEN Fail(t, "Plain", call)
           ELSE Return(t, OkResult([deleted |-> TRUE]), call)
    /\ UNCHANGED <<loc, pwCount, sharedState, dynState>>

\* DeleteDBInstance(identifier); only an Err(ServiceError) other than
\* DbInstanceNotFoundFault makes it return an error
delete_aws_rds(t) ==
    /\ pc[t] = "rds_delete"
    /\ \E fault \in SdkFaults :
        LET n == loc[t].instance_name
            out == RdsOutcome(fault, n)
            call == <<"rds", "DeleteDBInstance", n, out>> IN
        /\ rds' = IF out = "ok" THEN [rds EXCEPT ![n].status = "deleting"] ELSE rds
        /\ IF out \in {"service_error", "invalid_state"}
           THEN Fail(t, "Plain", call)
           ELSE Return(t, OkResult([deleted |-> TRUE]), call)
    /\ UNCHANGED <<loc, pwCount, sharedState, dynState>>

\* AWS moves an instance on: creating -> available; a pending master password
\* takes the instance through resetting-master-credentials; deleting -> gone
rds_progress(n) ==
    /\ n \in DOMAIN rds
    /\ rds' = CASE rds[n].status = "deleting" -> Drop(rds, {n})
                [] rds[n].status = "creating" -> [rds EXCEPT ![n].status = "available"]
                [] rds[n].status = "resetting-master-credentials" ->
                     [rds EXCEPT ![n].status = "available",
                                 ![n].password = rds[n].pending, ![n].pending = 0]
                [] rds[n].status = "available" /\ rds[n].pending # 0 ->
                     [rds EXCEPT ![n].status = "resetting-master-credentials"]
                [] OTHER -> rds
    /\ rds' # rds
    /\ UNCHANGED <<pc, req, loc, result, issued, hist, calls, pwCount, sharedState, region,
                   dynState>>

-----------------------------------------------------------------------------
(* Text: a string is a sequence of one-character strings *)

\* the characters table names and tokens are made of, in ASCII order
Alphabet == <<"1", "2", "L", "P", "Q">>

Ord(c) == CHOOSE i \in 1..Len(Alphabet) : Alphabet[i] = c

\* a < b in the lexicographic order of strings
StrLess(a, b) ==
    \E i \in 1..Len(b) :
        /\ i <= Len(a) + 1
        /\ \A j \in 1..(i - 1) : a[j] = b[j]
        /\ (i = Len(a) + 1 \/ Ord(a[i]) < Ord(b[i]))

\* str::starts_with
StartsWith(a, prefix) ==
    /\ Len(prefix) <= Len(a)
    /\ SubSeq(a, 1, Len(prefix)) = prefix

IndexOf(text, c) ==
    IF \E i \in 1..Len(text) : text[i] = c
    THEN CHOOSE i \in 1..Len(text) : text[i] = c /\ \A j \in 1..(i - 1) : text[j] # c
    ELSE 0

\* BufRead::lines: split at "\n", a "\r" before it dropped too; no empty last line
RECURSIVE Lines(_)
Lines(text) ==
    IF text = <<>> THEN <<>>
    ELSE LET i == IndexOf(text, "\n") IN
         IF i = 0 THEN <<text>>
         ELSE LET line == SubSeq(text, 1, i - 1)
                  stripped == IF line # <<>> /\ line[Len(line)] = "\r"
                              THEN SubSeq(line, 1, Len(line) - 1) ELSE line
              IN <<stripped>> \o Lines(SubSeq(text, i + 1, Len(text)))

\* mutant: the two parts are separated by a blank, not by a line break
KeyFileContents_OneLine(access_key_id, secret_access_key) ==
    access_key_id \o <<" ">> \o secret_access_key

\* format!("{}\n{}", access_key_id, secret_access_key)
KeyFileContents(access_key_id, secret_access_key) ==
    access_key_id \o <<"\n">> \o secret_access_key

\* Option::None, for a key pair and for a table name
None == <<>>

\* get_saved_access_key: the first two lines of the file, if it opens and has them
get_saved_access_key(prefix) ==
    LET name == get_access_key_file_name(prefix) IN
    IF name \notin DOMAIN files THEN None
    ELSE LET ls == Lines(files[name]) IN
         IF Len(ls) >= 2 THEN <<ls[1], ls[2]>> ELSE None

-----------------------------------------------------------------------------
(* DynamoDB: DynamoDBHandler, request_dynamodb, delete_dynamodb *)

Digits == <<"1", "2", "3", "4", "5", "6", "7", "8", "9">>

\* the n-th access key IAM creates
NewKey(user, n) == [user |-> user, id |-> <<"K", Digits[n]>>, secret |-> <<"S", Digits[n]>>]

KeysOf(user) == {k \in iamKeys : k.user = user}

DynamoResponse(l, key) ==
    [prefix |-> l.prefix, aws_access_key_id |-> key[1], aws_secret_access_key |-> key[2],
     aws_default_region |-> region, endpoint |-> "None"]

\* what follows get_iam_identity_keys: request_dynamodb resolves the region and
\* returns; delete_access_key goes on to DeleteAccessKey
KeysObtained(t, key, iss) ==
    IF req[t].op = "provision_dynamo_db"
    THEN /\ Finish(t,
                   IF region = NoRegion THEN ErrorToStatus("GetRegion")
                   ELSE OkResult(DynamoResponse(loc[t], key)), iss)
         /\ loc' = [loc EXCEPT ![t].key = key]
    ELSE /\ Continue(t, "iam_delete_key", iss)
         /\ loc' = [loc EXCEPT ![t].key = key]

\* mutant: the saved key is not looked at, a key is created every time
get_iam_identity_keys_AlwaysCreate(t, iss) ==
    /\ Continue(t, "iam_create_key", iss)
    /\ UNCHANGED loc

\* get_iam_identity_keys up to its await: the saved key, or on to CreateAccessKey
get_iam_identity_keys(t, iss) ==
    LET saved == get_saved_access_key(loc[t].prefix)
        read == Append(iss, <<"file", "open", get_access_key_file_name(loc[t].prefix),
                              IF saved # None THEN "some" ELSE "none">>) IN
    IF saved # None
    THEN KeysObtained(t, saved, read)
    ELSE /\ Continue(t, "iam_create_key", read)
         /\ UNCHANGED loc

\* CreatePolicy; EntityAlreadyExists counts as success
create_dynamodb_policy_ContinueOnFault(t) ==
    /\ pc[t] = "iam_create_policy"
    /\ \E ok \in BOOLEAN :
        LET name == get_dynamodb_policy_name(loc[t].prefix)
            out == IF ~ok THEN "fault" ELSE IF name \in iamPolicies THEN "exists" ELSE "ok"
            call == <<"iam", "CreatePolicy", name, out>> IN
        /\ iamPolicies' = IF out = "fault" THEN iamPolicies ELSE iamPolicies \cup {name}
        /\ Goto(t, "iam_create_user", call)
    /\ UNCHANGED <<loc, pwCount, sharedState, rds, iamUsers, iamAttached, iamKeys, keyCount,
                   files, tables>>

create_dynamodb_policy(t) ==
    /\ pc[t] = "iam_create_policy"
    /\ \E ok \in BOOLEAN :
        LET name == get_dynamodb_policy_name(loc[t].prefix)
            out == IF ~ok THEN "fault" ELSE IF name \in iamPolicies THEN "exists" ELSE "ok"
            call == <<"iam", "CreatePolicy", name, out>> IN
        IF out \in {"ok", "exists"}
        THEN /\ iamPolicies' = iamPolicies \cup {name}
             /\ Goto(t, "iam_create_user", call)
        ELSE /\ Fail(t, "CreateIAMPolicy", call)
             /\ UNCHANGED iamPolicies
    /\ UNCHANGED <<loc, pwCount, sharedState, rds, iamUsers, iamAttached, iamKeys, keyCount,
                   files, tables>>

\* CreateUser; EntityAlreadyExists counts as success; then attach_user_policy
\* goes to STS for the policy ARN
create_iam_identity(t) ==
    /\ pc[t] = "iam_create_user"
    /\ \E ok \in BOOLEAN :
        LET name == get_iam_identity_user_name(loc[t].prefix)
            out == IF ~ok THEN "fault" ELSE IF name \in iamUsers THEN "exists" ELSE "ok"
            call == <<"iam", "CreateUser", name, out>> IN
        IF out \in {"ok", "exists"}
        THEN /\ iamUsers' = iamUsers \cup {name}
             /\ loc' = [loc EXCEPT ![t].next = "iam_attach"]
             /\ Goto(t, "sts", call)
        ELSE /\ Fail(t, "CreateIAMUser", call)
             /\ UNCHANGED <<iamUsers, loc>>
    /\ UNCHANGED <<pwCount, sharedState, rds, iamPolicies, iamAttached, iamKeys, keyCount,
                   files, tables>>

\* get_policy_arn: STS GetCallerIdentity, whose account may be missing
get_policy_arn(t) ==
    /\ pc[t] = "sts"
    /\ \E out \in {"ok", "fault", "no_account"} :
        LET call == <<"sts", "GetCallerIdentity", Account, out>> IN
        IF out = "ok"
        THEN /\ loc' = [loc EXCEPT ![t].policy_arn =
                            PolicyArn(Account, get_dynamodb_policy_name(loc[t].prefix))]
             /\ Goto(t, loc[t].next, call)
        ELSE /\ Fail(t, IF out = "fault" THEN "GetCallerIdentity" ELSE "GetAccount", call)
             /\ UNCHANGED loc
    /\ UNCHANGED <<pwCount, backend>>

PolicyOfArn(arn) == arn[4]

\* AttachUserPolicy, then get_iam_identity_keys reads the state file
attach_user_policy(t) ==
    /\ pc[t] = "iam_attach"
    /\ \E ok \in BOOLEAN :
        LET user == get_iam_identity_user_name(loc[t].prefix)
            out == Outcome(ok, /\ user \in iamUsers
                               /\ PolicyOfArn(loc[t].policy_arn) \in iamPolicies)
            call == <<"iam", "AttachUserPolicy", user, out>> IN
        IF out = "ok"
        THEN /\ iamAttached' = iamAttached \cup {<<user, loc[t].policy_arn>>}
             /\ get_iam_identity_keys(t, Append(issued[t], call))
             /\ UNCHANGED <<req, calls, hist>>
        ELSE /\ Fail(t, "AttachUserPolicy", call)
             /\ UNCHANGED <<iamAttached, loc>>
    /\ UNCHANGED <<pwCount, sharedState, rds, iamPolicies, iamUsers, iamKeys, keyCount,
                   files, tables>>

\* how save_access_key ends: written, File::create failed, or write_all failed
\* on the truncated file
SaveOutcomes == {"ok", "create_failed", "write_failed"}

\* CreateAccessKey, then save_access_key writes the state file
create_access_key(t) ==
    /\ pc[t] = "iam_create_key"
    /\ \E ok \in BOOLEAN, save \in SaveOutcomes :
        LET user == get_iam_identity_user_name(loc[t].prefix)
            name == get_access_key_file_name(loc[t].prefix)
            key == NewKey(user, keyCount + 1)
            out == Outcome(ok, /\ user \in iamUsers
                               /\ Cardinality(KeysOf(user)) < MaxKeysPerUser)
            call == <<"iam", "CreateAccessKey", user, out>>
            iss == issued[t] \o <<call, <<"file", "create", name, save>> >> IN
        IF out = "ok"
        THEN /\ iamKeys' = iamKeys \cup {key}
             /\ keyCount' = keyCount + 1
             /\ IF save = "ok"
                THEN /\ files' = Put(files, name, KeyFileContents(key.id, key.secret))
                     /\ KeysObtained(t, <<key.id, key.secret>>, iss)
                ELSE /\ files' = IF save = "write_failed" THEN Put(files, name, <<>>) ELSE files
                     /\ Finish(t, ErrorToStatus("GetIAMIdentityKeys"), iss)
                     /\ UNCHANGED loc
             /\ UNCHANGED <<req, calls, hist>>
        ELSE /\ Fail(t, "CreateAccessKey", call)
             /\ UNCHANGED <<iamKeys, keyCount, files, loc>>
    /\ UNCHANGED <<pwCount, sharedState, rds, iamPolicies, iamUsers, iamAttached, tables>>

\* DetachUserPolicy, then delete_access_key starts with get_iam_identity_keys
detach_user_policy(t) ==
    /\ pc[t] = "iam_detach"
    /\ \E ok \in BOOLEAN :
        LET user == get_iam_identity_user_name(loc[t].prefix)
            out == Outcome(ok, <<user, loc[t].policy_arn>> \in iamAttached)
            call == <<"iam", "DetachUserPolicy", user, out>> IN
        IF out = "ok"
        THEN /\ iamAttached' = iamAttached \ {<<user, loc[t].policy_arn>>}
             /\ get_iam_identity_keys(t, Append(issued[t], call))
             /\ UNCHANGED <<req, calls, hist>>
        ELSE /\ Fail(t, "DetachUserPolicy", call)
             /\ UNCHANGED <<iamAttached, loc>>
    /\ UNCHANGED <<pwCount, sharedState, rds, iamPolicies, iamUsers, iamKeys, keyCount,
                   files, tables>>

\* mutant: the key is deleted in IAM and its file is left in place
delete_access_key_RemoveFirst(t) ==
    /\ pc[t] = "iam_delete_key"
    /\ \E ok \in BOOLEAN, removed \in BOOLEAN :
        LET user == get_iam_identity_user_name(loc[t].prefix)
            name == get_access_key_file_name(loc[t].prefix)
            live == {k \in KeysOf(user) : k.id = loc[t].key[1]}
            out == Outcome(ok, live # {})
            call == <<"iam", "DeleteAccessKey", user, out>>
            rm == Outcome(removed, name \in DOMAIN files)
            iss == issued[t] \o <<call, <<"file", "remove", name, rm>> >> IN
        /\ iamKeys' = IF out = "ok" THEN iamKeys \ live ELSE iamKeys
        /\ files' = IF rm = "ok" THEN Drop(files, {name}) ELSE files
        /\ IF out = "ok" /\ rm = "ok"
           THEN Continue(t, "iam_delete_user", iss)
           ELSE Finish(t, ErrorToStatus(IF out = "ok" THEN "io::Error" ELSE "DeleteAccessKey"),
                       iss)
        /\ UNCHANGED <<req, calls, hist>>
    /\ UNCHANGED <<loc, pwCount, sharedState, rds, iamPolicies, iamUsers, iamAttached, keyCount,
                   tables>>

delete_access_key_KeepFile(t) ==
    /\ pc[t] = "iam_delete_key"
    /\ \E ok \in BOOLEAN, removed \in BOOLEAN :
        LET user == get_iam_identity_user_name(loc[t].prefix)
            name == get_access_key_file_name(loc[t].prefix)
            live == {k \in KeysOf(user) : k.id = loc[t].key[1]}
            out == Outcome(ok, live # {})
            call == <<"iam", "DeleteAccessKey", user, out>>
            rm == Outcome(removed, name \in DOMAIN files)
            iss == issued[t] \o <<call, <<"file", "remove", name, rm>> >> IN
        IF out = "ok"
        THEN /\ iamKeys' = iamKeys \ live
             /\ IF rm = "ok"
                THEN /\ UNCHANGED files
                     /\ Continue(t, "iam_delete_user", iss)
                ELSE /\ UNCHANGED files
                     /\ Finish(t, ErrorToStatus("io::Error"), iss)
             /\ UNCHANGED <<req, calls, hist>>
        ELSE /\ Fail(t, "DeleteAccessKey", call)
             /\ UNCHANGED <<iamKeys, files>>
    /\ UNCHANGED <<loc, pwCount, sharedState, rds, iamPolicies, iamUsers, iamAttached, keyCount,
                   tables>>

\* DeleteAccessKey, then delete_saved_access_key removes the state file
delete_access_key(t) ==
    /\ pc[t] = "iam_delete_key"
    /\ \E ok \in BOOLEAN, removed \in BOOLEAN :
        LET user == get_iam_identity_user_name(loc[t].prefix)
            name == get_access_key_file_name(loc[t].prefix)
            live == {k \in KeysOf(user) : k.id = loc[t].key[1]}
            out == Outcome(ok, live # {})
            call == <<"iam", "DeleteAccessKey", user, out>>
            rm == Outcome(removed, name \in DOMAIN files)
            iss == issued[t] \o <<call, <<"file", "remove", name, rm>> >> IN
        IF out = "ok"
        THEN /\ iamKeys' = iamKeys \ live
             /\ IF rm = "ok"
                THEN /\ files' = Drop(files, {name})
                     /\ Continue(t, "iam_delete_user", iss)
                ELSE /\ UNCHANGED files
                     /\ Finish(t, ErrorToStatus("io::Error"), iss)
             /\ UNCHANGED <<req, calls, hist>>
        ELSE /\ Fail(t, "DeleteAccessKey", call)
             /\ UNCHANGED <<iamKeys, files>>
    /\ UNCHANGED <<loc, pwCount, sharedState, rds, iamPolicies, iamUsers, iamAttached, keyCount,
                   tables>>

\* DeleteUser, which IAM refuses while the user has keys or attached policies;
\* then delete_dynamodb_policy goes to STS for the policy ARN
delete_iam_identity(t) ==
    /\ pc[t] = "iam_delete_user"
    /\ \E ok \in BOOLEAN :
        LET user == get_iam_identity_user_name(loc[t].prefix)
            out == Outcome(ok, /\ user \in iamUsers
                               /\ KeysOf(user) = {}
                               /\ \A a \in iamAttached : a[1] # user)
            call == <<"iam", "DeleteUser", user, out>> IN
        IF out = "ok"
        THEN /\ iamUsers' = iamUsers \ {user}
             /\ loc' = [loc EXCEPT ![t].next = "iam_delete_policy"]
             /\ Goto(t, "sts", call)
        ELSE /\ Fail(t, "DeleteIAMUser", call)
             /\ UNCHANGED <<iamUsers, loc>>
    /\ UNCHANGED <<pwCount, sharedState, rds, iamPolicies, iamAttached, iamKeys, keyCount,
                   files, tables>>

\* DeletePolicy(arn), which IAM refuses while the policy is attached; then
\* delete_dynamodb_tables_by_prefix starts listing after the prefix
delete_dynamodb_policy(t) ==
    /\ pc[t] = "iam_delete_policy"
    /\ \E ok \in BOOLEAN :
        LET name == PolicyOfArn(loc[t].policy_arn)
            out == Outcome(ok, /\ name \in iamPolicies
                               /\ \A a \in iamAttached : a[2] # loc[t].policy_arn)
            call == <<"iam", "DeletePolicy", loc[t].policy_arn, out>> IN
        IF out = "ok"
        THEN /\ iamPolicies' = iamPolicies \ {name}
             /\ loc' = [loc EXCEPT ![t].cursor = loc[t].prefix]
             /\ Goto(t, "tables_list", call)
        ELSE /\ Fail(t, "DeleteIAMPolicy", call)
             /\ UNCHANGED <<iamPolicies, loc>>
    /\ UNCHANGED <<pwCount, sharedState, rds, iamUsers, iamAttached, iamKeys, keyCount,
                   files, tables>>

-----------------------------------------------------------------------------
(* DynamoDB: delete_dynamodb_tables_by_prefix *)

\* the names of a set in lexicographic order
RECURSIVE Sorted(_)
Sorted(names) ==
    IF names = {} THEN <<>>
    ELSE LET least == CHOOSE n \in names : \A m \in names \ {n} : StrLess(n, m)
         IN <<least>> \o Sorted(names \ {least})

\* ListTables(exclusive_start_table_name): a page of at most `size` names after
\* the start, and the last name of the page when more follow
ListTables(start, size) ==
    LET after == Sorted({n \in tables : StrLess(start, n)})
        page == SubSeq(after, 1, IF Len(after) < size THEN Len(after) ELSE size)
    IN [table_names |-> page,
        last_evaluated_table_name |-> IF Len(after) > size THEN page[Len(page)] ELSE None]

\* mutant: the listing is not continued after its first page
Cleanup_NoBreak(t, names, last, call) ==
    IF names # <<>>
    THEN /\ loc' = [loc EXCEPT ![t].page = names, ![t].cursor = last]
         /\ Goto(t, "tables_delete", call)
    ELSE IF last # None
    THEN /\ loc' = [loc EXCEPT ![t].page = <<>>, ![t].cursor = last]
         /\ Goto(t, "tables_list", call)
    ELSE /\ loc' = [loc EXCEPT ![t].page = <<>>, ![t].cursor = None]
         /\ Goto(t, "tables_final", call)

Cleanup_FirstPageOnly(t, names, last, call) ==
    IF names # <<>> /\ ~StartsWith(names[1], loc[t].prefix)
    THEN /\ loc' = [loc EXCEPT ![t].page = <<>>, ![t].cursor = None]
         /\ Goto(t, "tables_final", call)
    ELSE IF names # <<>>
    THEN /\ loc' = [loc EXCEPT ![t].page = names, ![t].cursor = None]
         /\ Goto(t, "tables_delete", call)
    ELSE /\ loc' = [loc EXCEPT ![t].page = <<>>, ![t].cursor = None]
         /\ Goto(t, "tables_final", call)

\* the loops of delete_dynamodb_tables_by_prefix up to the next await, with
\* `names` left of the current page and `last` the next start
Cleanup(t, names, last, call) ==
    IF names # <<>> /\ ~StartsWith(names[1], loc[t].prefix)
    THEN \* break 'outer
         /\ loc' = [loc EXCEPT ![t].page = <<>>, ![t].cursor = None]
         /\ Goto(t, "tables_final", call)
    ELSE IF names # <<>>
    THEN /\ loc' = [loc EXCEPT ![t].page = names, ![t].cursor = last]
         /\ Goto(t, "tables_delete", call)
    ELSE IF last # None
    THEN /\ loc' = [loc EXCEPT ![t].page = <<>>, ![t].cursor = last]
         /\ Goto(t, "tables_list", call)
    ELSE /\ loc' = [loc EXCEPT ![t].page = <<>>, ![t].cursor = None]
         /\ Goto(t, "tables_final", call)

\* ListTables, which answers with a page of a size of DynamoDB's choosing
cleanup_list_tables(t) ==
    /\ pc[t] = "tables_list"
    /\ \E ok \in BOOLEAN, size \in 1..PageSize :
        LET out == Outcome(ok, TRUE)
            call == <<"dynamodb", "ListTables", loc[t].cursor, out>>
            res == ListTables(loc[t].cursor, size) IN
        IF out = "ok"
        THEN Cleanup(t, res.table_names, res.last_evaluated_table_name, call)
        ELSE /\ Fail(t, "DeleteDynamoDBTableError", call)
             /\ UNCHANGED loc
    /\ UNCHANGED <<pwCount, backend>>

\* DeleteTable for the next name of the page
cleanup_delete_table(t) ==
    /\ pc[t] = "tables_delete"
    /\ \E ok \in BOOLEAN :
        LET name == Head(loc[t].page)
            out == Outcome(ok, name \in tables)
            call == <<"dynamodb", "DeleteTable", name, out>> IN
        IF out = "ok"
        THEN /\ tables' = tables \ {name}
             /\ Cleanup(t, Tail(loc[t].page), loc[t].cursor, call)
        ELSE /\ Fail(t, "DeleteDynamoDBTableError", call)
             /\ UNCHANGED <<tables, loc>>
    /\ UNCHANGED <<pwCount, sharedState, rds, iamState, files>>

\* the last DeleteTable(prefix), whose result is dropped
cleanup_delete_prefix_table_Propagate(t) ==
    /\ pc[t] = "tables_final"
    /\ \E ok \in BOOLEAN :
        LET out == Outcome(ok, loc[t].prefix \in tables)
            call == <<"dynamodb", "DeleteTable", loc[t].prefix, out>> IN
        IF out = "ok"
        THEN /\ tables' = tables \ {loc[t].prefix}
             /\ Return(t, OkResult([deleted |-> TRUE]), call)
        ELSE /\ Fail(t, "DeleteDynamoDBTableError", call)
             /\ UNCHANGED tables
    /\ UNCHANGED <<loc, pwCount, sharedState, rds, iamState, files>>

cleanup_delete_prefix_table(t) ==
    /\ pc[t] = "tables_final"
    /\ \E ok \in BOOLEAN :
        LET out == Outcome(ok, loc[t].prefix \in tables)
            call == <<"dynamodb", "DeleteTable", loc[t].prefix, out>> IN
        /\ tables' = IF out = "ok" THEN tables \ {loc[t].prefix} ELSE tables
        /\ Return(t, OkResult([deleted |-> TRUE]), call)
    /\ UNCHANGED <<loc, pwCount, sharedState, rds, iamState, files>>

\* a tenant holding credentials creates a table its policy allows: one whose
\* name begins with its prefix
tenant_create_table(name) ==
    /\ name \notin tables
    /\ Cardinality(tables) < MaxTables
    /\ \E p \in Projects :
        /\ StartsWith(name, get_prefix(p))
        /\ KeysOf(get_iam_identity_user_name(get_prefix(p))) # {}
        /\ \E a \in iamAttached : a[1] = get_iam_identity_user_name(get_prefix(p))
    /\ tables' = tables \cup {name}
    /\ UNCHANGED <<pc, req, loc, result, issued, hist, calls, pwCount, sharedState, rds,
                   region, iamState, files>>

-----------------------------------------------------------------------------
(* The drivers' entry points: the code a handler runs before its first await *)

\* request_shared_db: shared_pg_role or shared_mongodb up to the first query
request_shared_db(t, r) ==
    /\ pwCount' = pwCount + 1
    /\ IF r.engine = "Postgres"
       THEN /\ loc' = [loc EXCEPT ![t] = [NoLoc EXCEPT !.username = RoleName(r.project_name),
                                                      !.password = generate_password]]
            /\ Continue(t, "pg_role_select", <<>>)
       ELSE /\ loc' = [loc EXCEPT ![t] = [NoLoc EXCEPT !.username = RoleName(r.project_name),
                                                      !.password = generate_password,
                                                      !.database_name = MongoDbName(r.project_name)]]
            /\ Continue(t, "mongo_create_user", <<>>)

\* delete_shared_db: delete_pg or delete_mongodb up to the first command
delete_shared_db(t, r) ==
    /\ UNCHANGED pwCount
    /\ IF r.engine = "Postgres"
       THEN /\ loc' = [loc EXCEPT ![t] = [NoLoc EXCEPT !.username = RoleName(r.project_name),
                                                      !.database_name = DbName(r.project_name)]]
            /\ Continue(t, "pg_drop_db", <<>>)
       ELSE /\ loc' = [loc EXCEPT ![t] = [NoLoc EXCEPT !.database_name = MongoDbName(r.project_name)]]
            /\ Continue(t, "mongo_drop_users", <<>>)

\* request_aws_rds up to ModifyDBInstance
request_aws_rds(t, r) ==
    /\ pwCount' = pwCount + 1
    /\ loc' = [loc EXCEPT ![t] = [NoLoc EXCEPT !.password = generate_password,
                                               !.instance_name = InstanceName(r.project_name, r.engine)]]
    /\ Continue(t, "rds_modify", <<>>)

\* delete_aws_rds up to DeleteDBInstance
delete_aws_rds_begin(t, r) ==
    /\ UNCHANGED pwCount
    /\ loc' = [loc EXCEPT ![t] = [NoLoc EXCEPT !.instance_name = InstanceName(r.project_name, r.engine)]]
    /\ Continue(t, "rds_delete", <<>>)

\* request_dynamodb up to CreatePolicy
request_dynamodb(t, r) ==
    /\ loc' = [loc EXCEPT ![t] = [NoLoc EXCEPT !.prefix = get_prefix(r.project_name)]]
    /\ Continue(t, "iam_create_policy", <<>>)
    /\ UNCHANGED pwCount

\* delete_dynamodb up to the STS call of detach_user_policy
delete_dynamodb(t, r) ==
    /\ loc' = [loc EXCEPT ![t] = [NoLoc EXCEPT !.prefix = get_prefix(r.project_name),
                                               !.next = "iam_detach"]]
    /\ Continue(t, "sts", <<>>)
    /\ UNCHANGED pwCount

\* a handler that returns before any await
Immediately(t, r, res) ==
    /\ Finish(t, res, <<>>)
    /\ loc' = [loc EXCEPT ![t] = NoLoc]
    /\ UNCHANGED pwCount

-----------------------------------------------------------------------------
(* The RPC facade: impl Provisioner for MyProvisioner *)

provision_database(t, k) ==
    \E p \in k.projects, ty \in k.types, c \in k.claims :
        LET r == Request("provision_database", p, ty, c) IN
        /\ Receive(t, r, k)
        /\ IF verify_claim(r) # NoResult THEN Immediately(t, r, verify_claim(r))
           ELSE IF "None" \in {r.db_type, r.engine} THEN Immediately(t, r, PanicResult)
           ELSE IF r.db_type = "Shared" THEN request_shared_db(t, r)
           ELSE request_aws_rds(t, r)
        /\ UNCHANGED backend

delete_database(t, k) ==
    \E p \in k.projects, ty \in k.types, c \in k.claims :
        LET r == Request("delete_database", p, ty, c) IN
        /\ Receive(t, r, k)
        /\ IF verify_claim(r) # NoResult THEN Immediately(t, r, verify_claim(r))
           ELSE IF "None" \in {r.db_type, r.engine} THEN Immediately(t, r, PanicResult)
           ELSE IF r.db_type = "Shared" THEN delete_shared_db(t, r)
           ELSE delete_aws_rds_begin(t, r)
        /\ UNCHANGED backend

\* mutant: the driver is started before the claim is looked at
provision_dynamo_db_DispatchFirst(t, k) ==
    \E p \in k.projects, c \in k.claims :
        LET r == Request("provision_dynamo_db", p, NoType, c) IN
        /\ Receive(t, r, k)
        /\ request_dynamodb(t, r)
        /\ UNCHANGED backend

provision_dynamo_db(t, k) ==
    \E p \in k.projects, c \in k.claims :
        LET r == Request("provision_dynamo_db", p, NoType, c) IN
        /\ Receive(t, r, k)
        /\ IF verify_claim(r) # NoResult THEN Immediately(t, r, verify_claim(r))
           ELSE request_dynamodb(t, r)
        /\ UNCHANGED backend

delete_dynamo_db(t, k) ==
    \E p \in k.projects, c \in k.claims :
        LET r == Request("delete_dynamo_db", p, NoType, c) IN
        /\ Receive(t, r, k)
        /\ IF verify_claim(r) # NoResult THEN Immediately(t, r, verify_claim(r))
           ELSE delete_dynamodb(t, r)
        /\ UNCHANGED backend

health_check_Verified(t, k) ==
    \E c \in k.claims :
        LET r == Request("health_check", "-", NoType, c) IN
        /\ Receive(t, r, k)
        /\ IF verify_claim(r) # NoResult THEN Immediately(t, r, verify_claim(r))
           ELSE Immediately(t, r, OkResult([pong |-> TRUE]))
        /\ UNCHANGED backend

health_check(t, k) ==
    \E c \in k.claims :
        LET r == Request("health_check", "-", NoType, c) IN
        /\ Receive(t, r, k)
        /\ Immediately(t, r, OkResult([pong |-> TRUE]))
        /\ UNCHANGED backend

-----------------------------------------------------------------------------
(* Specifications *)

shared_pg_role(t) ==
    shared_pg_role_select(t) \/ shared_pg_role_create(t) \/ shared_pg_role_alter(t)

shared_pg(t) ==
    shared_pg_select(t) \/ shared_pg_create(t) \/ shared_pg_connect(t) \/ shared_pg_revoke(t)

delete_pg(t) == delete_pg_drop_db(t) \/ delete_pg_drop_role(t)

shared_mongodb(t) == shared_mongodb_create_user(t) \/ shared_mongodb_update_user(t)

delete_mongodb(t) == delete_mongodb_drop_users(t) \/ delete_mongodb_drop_db(t)

SharedSteps(t) ==
    shared_pg_role(t) \/ shared_pg(t) \/ delete_pg(t) \/ shared_mongodb(t) \/ delete_mongodb(t)

\* the requests a specification lets arrive
Scope(projects, types, claims, max, history) ==
    [projects |-> projects, types |-> types, claims |-> claims, max |-> max,
     history |-> history]

\* one request at a time (task 1), authorised, shared engines only
SharedScope == Scope({"a"}, SharedTypes, {WriteClaim}, MaxCallsShared, TRUE)

NextShared ==
    \/ provision_database(1, SharedScope)
    \/ delete_database(1, SharedScope)
    \/ SharedSteps(1)

SpecShared == Init /\ [][NextShared]_vars

RdsSteps(t) ==
    request_aws_rds_modify(t) \/ request_aws_rds_create(t) \/ wait_for_instance(t) \/ delete_aws_rds(t)

RdsInstances == {InstanceName(p, ty[2]) : p \in Projects, ty \in RdsTypes}

\* one request at a time (task 1), authorised, RDS only
RdsScope == Scope({"a"}, RdsTypes, {WriteClaim}, MaxCallsRds, TRUE)

NextRds ==
    \/ provision_database(1, RdsScope)
    \/ delete_database(1, RdsScope)
    \/ RdsSteps(1)
    \/ \E n \in RdsInstances : rds_progress(n)

SpecRds == Init /\ [][NextRds]_vars

DynamoSteps(t) ==
    \/ create_dynamodb_policy(t) \/ create_iam_identity(t) \/ get_policy_arn(t)
    \/ attach_user_policy(t) \/ create_access_key(t)
    \/ detach_user_policy(t) \/ delete_access_key(t) \/ delete_iam_identity(t)
    \/ delete_dynamodb_policy(t)
    \/ cleanup_list_tables(t) \/ cleanup_delete_table(t) \/ cleanup_delete_prefix_table(t)

\* the table names tenants may create
TableNames == {get_prefix(p) \o s : p \in Projects, s \in {<<>>, <<"1">>}}

\* one request at a time (task 1), authorised, DynamoDB only
DynamoScope == Scope({"a"}, {NoType}, {WriteClaim}, MaxCallsDynamo, TRUE)

NextDynamo ==
    \/ provision_dynamo_db(1, DynamoScope)
    \/ delete_dynamo_db(1, DynamoScope)
    \/ DynamoSteps(1)
    \/ \E n \in TableNames : tenant_create_table(n)

SpecDynamo == Init /\ [][NextDynamo]_vars

\* two handlers at once (tasks 1 and 2), authorised, shared engines only
ConcurrentScope == Scope({"a"}, SharedTypes, {WriteClaim}, MaxCallsConcurrent, FALSE)

NextConcurrent ==
    \E t \in Tasks :
        \/ provision_database(t, ConcurrentScope)
        \/ shared_pg_role(t)
        \/ shared_pg(t)
        \/ shared_mongodb(t)

SpecConcurrent == Init /\ [][NextConcurrent]_vars

\* the scheduling of the RDS workflow: the waiting loop polls again after each
\* one-second sleep (a poll that is answered, as opposed to one that fails), and
\* an instance in a transient status does leave it
wait_for_instance_poll(t) ==
    /\ wait_for_instance(t)
    /\ issued'[t][Len(issued'[t])][4] \notin {"fault", "not_found"}

RdsFairness ==
    /\ WF_vars(wait_for_instance_poll(1))
    /\ \A n \in RdsInstances : WF_vars(rds_progress(n))

SpecRdsLive == SpecRds /\ RdsFairness

\* the tables of the account in the cleanup on its own: the bare prefix of
\* project "a", two names that begin with it, one before and one after them
CleanupTables ==
    {get_prefix("a"), get_prefix("a") \o <<"1">>, get_prefix("a") \o <<"2">>,
     <<"L">>, get_prefix("b")}

\* a table is created while no cleanup runs
create_dynamodb_table(name) ==
    /\ \A t \in Tasks : Idle(t)
    /\ name \notin tables
    /\ tables' = tables \cup {name}
    /\ UNCHANGED <<pc, req, loc, result, issued, hist, calls, pwCount, sharedState, rds,
                   region, iamState, keyCount, files>>

\* delete_dynamodb_tables_by_prefix(client, prefix) called directly, up to its
\* first ListTables
delete_dynamodb_tables_by_prefix(t, p) ==
    /\ Idle(t)
    /\ req' = [req EXCEPT ![t] = Request("delete_dynamodb_tables_by_prefix", p, NoType, NoClaim)]
    /\ loc' = [loc EXCEPT ![t] = [NoLoc EXCEPT !.prefix = get_prefix(p),
                                             !.cursor = get_prefix(p)]]
    /\ Continue(t, "tables_list", <<>>)
    /\ UNCHANGED <<calls, hist, pwCount, backend>>

NextCleanup ==
    \/ \E n \in CleanupTables : create_dynamodb_table(n)
    \/ delete_dynamodb_tables_by_prefix(1, "a")
    \/ cleanup_list_tables(1)
    \/ cleanup_delete_table(1)
    \/ cleanup_delete_prefix_table(1)

SpecCleanup == Init /\ [][NextCleanup]_vars

\* the strings the access-key store is given: tokens, the empty string, and
\* strings with a line break in them
KeyStrings == {<<>>, <<"K", "1">>, <<"S", "1">>, <<"K", "\r">>, <<"\n">>}

FileResult(outcome) == IF outcome = "ok" THEN OkResult(<<>>) ELSE StatusResult("-", "", "io::Error")

\* save_access_key(id, secret) on the handler of project p, called directly;
\* loc[t].key is the caller's note of the pair the store last took
save_access_key(t, p, access_key_id, secret_access_key) ==
    /\ Idle(t)
    /\ \E save \in SaveOutcomes :
        LET name == get_access_key_file_name(get_prefix(p)) IN
        /\ files' = CASE save = "ok" ->
                           Put(files, name, KeyFileContents(access_key_id, secret_access_key))
                      [] save = "write_failed" -> Put(files, name, <<>>)
                      [] OTHER -> files
        /\ loc' = [loc EXCEPT ![t].prefix = get_prefix(p),
                              ![t].key = CASE save = "ok" -> <<access_key_id, secret_access_key>>
                                           [] save = "write_failed" -> None
                                           [] OTHER -> @]
        /\ Finish(t, FileResult(save), <<<<"file", "create", name, save>>>>)
    /\ req' = [req EXCEPT ![t] = Request("save_access_key", p, NoType, NoClaim)]
    /\ UNCHANGED <<calls, hist, pwCount, sharedState, rds, iamState, keyCount, tables>>

\* delete_saved_access_key: remove_file, an error when there is no file
delete_saved_access_key(t, p) ==
    /\ Idle(t)
    /\ \E removed \in BOOLEAN :
        LET name == get_access_key_file_name(get_prefix(p))
            rm == Outcome(removed, name \in DOMAIN files) IN
        /\ files' = IF rm = "ok" THEN Drop(files, {name}) ELSE files
        /\ loc' = [loc EXCEPT ![t].prefix = get_prefix(p),
                              ![t].key = IF rm = "ok" THEN None ELSE @]
        /\ Finish(t, FileResult(rm), <<<<"file", "remove", name, rm>>>>)
    /\ req' = [req EXCEPT ![t] = Request("delete_saved_access_key", p, NoType, NoClaim)]
    /\ UNCHANGED <<calls, hist, pwCount, sharedState, rds, iamState, keyCount, tables>>

\* get_saved_access_key called directly: its Option is the body of the result
load_saved_access_key(t, p) ==
    /\ Idle(t)
    /\ LET name == get_access_key_file_name(get_prefix(p))
           saved == get_saved_access_key(get_prefix(p)) IN
       Finish(t, OkResult(saved),
              <<<<"file", "open", name, IF saved # None THEN "some" ELSE "none">>>>)
    /\ req' = [req EXCEPT ![t] = Request("get_saved_access_key", p, NoType, NoClaim)]
    /\ UNCHANGED <<loc, calls, hist, pwCount, backend>>

\* the access-key store on its own: one handler (task 1), one prefix
NextKeyFile ==
    \/ \E id \in KeyStrings, secret \in KeyStrings : save_access_key(1, "a", id, secret)
    \/ delete_saved_access_key(1, "a")
    \/ load_saved_access_key(1, "a")

SpecKeyFile == Init /\ [][NextKeyFile]_vars

\* one request at a time (task 1), authorised, every database a password is
\* minted for: the shared engines and RDS
StoresScope == Scope({"a"}, SharedTypes \cup RdsTypes, {WriteClaim}, MaxCallsStores, TRUE)

NextStores ==
    \/ provision_database(1, StoresScope)
    \/ delete_database(1, StoresScope)
    \/ SharedSteps(1)
    \/ RdsSteps(1)
    \/ \E n \in RdsInstances : rds_progress(n)

SpecStores == Init /\ [][NextStores]_vars

\* every operation, any claim, any project, one request at a time (task 1)
FullScope == Scope({"a"}, SharedTypes \cup RdsTypes \cup UnsetTypes, Claims, MaxCalls, FALSE)

Next ==
    \/ provision_database(1, FullScope)
    \/ delete_database(1, FullScope)
    \/ provision_dynamo_db(1, FullScope)
    \/ delete_dynamo_db(1, FullScope)
    \/ health_check(1, FullScope)
    \/ SharedSteps(1)
    \/ RdsSteps(1)
    \/ DynamoSteps(1)
    \/ \E n \in RdsInstances : rds_progress(n)
    \/ \E n \in TableNames : tenant_create_table(n)

Spec == Init /\ [][Next]_vars

-----------------------------------------------------------------------------
(* The claims *)

FacadeOps == {"provision_database", "delete_database", "provision_dynamo_db", "delete_dynamo_db"}

Done(t) == pc[t] = "done"

LacksScope(r) == r.claim.present /\ "ResourcesWrite" \notin r.claim.scopes

InternalFailed(res) ==
    res.tag = "Err" /\ res.code = "internal" /\ res.message = "failed to provision a database"

PermissionDenied(res) == res.tag = "Err" /\ res.code = "permission_denied"

\* C1: a request to one of the four operations whose claim lacks ResourcesWrite
\* is answered with the permission-denied status.
C1_MissingScopeIsDenied ==
    \A t \in Tasks :
        (req[t].op \in FacadeOps /\ LacksScope(req[t]))
            => (Done(t) /\ PermissionDenied(result[t]))

C1_Witness ==
    \E t \in Tasks :
        /\ req[t].op = "delete_dynamo_db"
        /\ LacksScope(req[t])
        /\ PermissionDenied(result[t])

\* C2: a request to one of the four operations that carries no claim is answered
\* with an internal status: neither permission-denied nor success.
C2_MissingClaimIsInternal ==
    \A t \in Tasks :
        (req[t].op \in FacadeOps /\ ~req[t].claim.present)
            => (Done(t) /\ result[t].tag = "Err" /\ result[t].code = "internal")

C2_Witness ==
    \E t \in Tasks :
        /\ req[t].op = "provision_database"
        /\ ~req[t].claim.present
        /\ Done(t) /\ result[t].code = "internal"

Rejected(r) == r.op \in FacadeOps /\ verify_claim(r) # NoResult

\* C3: claim verification comes first: the step that receives a request which is
\* rejected for its claim changes no backend, and the handler of such a request
\* has returned without having issued any backend call.
C3_RejectedTouchesNothing ==
    [][/\ (calls' = calls + 1 /\ \E t \in Tasks : Idle(t) /\ Rejected(req'[t]))
            => backend' = backend
       /\ \A t \in Tasks :
            Rejected(req'[t]) => (pc'[t] = "done" /\ issued'[t] = <<>>)]_vars

C3_Witness ==
    \E t \in Tasks :
        /\ req[t].op = "delete_dynamo_db"
        /\ Rejected(req[t])
        /\ Done(t) /\ issued[t] = <<>>
        /\ calls = 2
        /\ iamUsers # {}

\* C4 as claimed: a failed call is answered either with internal("failed to
\* provision a database") or with permission-denied.
C4_OnlyTwoStatuses ==
    \A t \in Tasks :
        (Done(t) /\ result[t].tag = "Err")
            => (InternalFailed(result[t]) \/ PermissionDenied(result[t]))

\* C4, amended: every error that escapes a driver, whatever its kind, is answered
\* with internal("failed to provision a database"); the statuses of a failed call
\* are that one, permission-denied for a missing scope, and internal("could not
\* get claim") for a missing claim.
C4_DriverErrorsAreUniform ==
    \A t \in Tasks :
        (Done(t) /\ result[t].tag = "Err")
            => /\ (result[t].kind # "" \/ issued[t] # <<>>) => InternalFailed(result[t])
               /\ \/ InternalFailed(result[t])
                  \/ PermissionDenied(result[t]) /\ LacksScope(req[t])
                  \/ /\ result[t].code = "internal"
                     /\ result[t].message = "could not get claim"
                     /\ ~req[t].claim.present

C4_Witness ==
    \E t \in Tasks :
        /\ Done(t)
        /\ result[t].kind = "DeleteAccessKey"
        /\ InternalFailed(result[t])

\* the outcomes of a backend call that failed for a reason of the backend's own
EnvFaults ==
    {"fault", "fault 51003", "service_error", "sdk_error", "no_account",
     "create_failed", "write_failed"}

NoFault(iss) == \A i \in 1..Len(iss) : iss[i][4] \notin EnvFaults

\* the number of calls of operation op among iss
Count(iss, op) == Cardinality({i \in 1..Len(iss) : iss[i][2] = op})

\* the call that returned before the latest request arrived
HasPrev == hist # <<>>
Prev == hist[Len(hist)]

IsSharedProvision(r) == r.op = "provision_database" /\ r.db_type = "Shared"

\* the password the shared store holds for the role or user of request r
SharedPassword(r) ==
    IF r.engine = "Postgres"
    THEN (IF RoleName(r.project_name) \in DOMAIN pgRoles
          THEN pgRoles[RoleName(r.project_name)] ELSE 0)
    ELSE (IF <<MongoDbName(r.project_name), RoleName(r.project_name)>> \in DOMAIN mongoUsers
          THEN mongoUsers[<<MongoDbName(r.project_name), RoleName(r.project_name)>>] ELSE 0)

\* C5: a shared-DB provision that directly follows a successful provision of the
\* same project and engine, and meets no backend fault, succeeds: no statement
\* of it is refused because the role, user or database exists, it returns the
\* same database_name and username as the first, and a different password.
C5_SharedProvisionIdempotent ==
    (/\ Done(1) /\ HasPrev
     /\ IsSharedProvision(req[1])
     /\ Prev.req = req[1]
     /\ Prev.result.tag = "Ok"
     /\ NoFault(issued[1]))
        => /\ result[1].tag = "Ok"
           /\ \A i \in 1..Len(issued[1]) : issued[1][i][4] # "refused"
           /\ result[1].body.database_name = Prev.result.body.database_name
           /\ result[1].body.username = Prev.result.body.username
           /\ result[1].body.password # Prev.result.body.password
           /\ SharedPassword(req[1]) = result[1].body.password

C5_Witness ==
    /\ Done(1) /\ HasPrev
    /\ IsSharedProvision(req[1]) /\ req[1].engine = "Mongodb"
    /\ Prev.req = req[1]
    /\ Prev.result.tag = "Ok"
    /\ result[1].tag = "Ok"
    /\ result[1].body.password # Prev.result.body.password

IsPgProvision(r) == IsSharedProvision(r) /\ r.engine = "Postgres"

\* the answers the pg_roles lookup of the current call got
Lookups(t) ==
    {issued[t][i][4] : i \in {j \in 1..Len(issued[t]) : issued[t][j][2] = "SELECT rolname"}}

\* C6: in a shared-Postgres provision whose pg_roles lookup found a row, ALTER
\* ROLE is issued and CREATE ROLE is not; when it found none, CREATE ROLE is
\* issued and ALTER ROLE is not; no call issues both or either twice, and a call
\* that has returned after the lookup answered has issued exactly one of them.
C6_AlterIffRoleFound ==
    \A t \in Tasks :
        IsPgProvision(req[t]) =>
            /\ Count(issued[t], "CREATE ROLE") + Count(issued[t], "ALTER ROLE") <= 1
            /\ Count(issued[t], "ALTER ROLE") = 1 => Lookups(t) = {"row"}
            /\ Count(issued[t], "CREATE ROLE") = 1 => Lookups(t) = {"none"}
            /\ (Done(t) /\ Lookups(t) = {"row"}) => Count(issued[t], "ALTER ROLE") = 1
            /\ (Done(t) /\ Lookups(t) = {"none"}) => Count(issued[t], "CREATE ROLE") = 1
            /\ \A i \in 1..Len(issued[t]) :
                issued[t][i][2] \in {"CREATE ROLE", "ALTER ROLE"}
                    => issued[t][i][3] = RoleName(req[t].project_name)

C6_Witness ==
    \E t \in Tasks :
        /\ IsPgProvision(req[t]) /\ Done(t)
        /\ Lookups(t) = {"row"}
        /\ Count(issued[t], "ALTER ROLE") = 1
        /\ Count(issued[t], "CREATE ROLE") = 0

RoleExists(p) == RoleName(p) \in DOMAIN pgRoles
DbExists(p) == DbName(p) \in DOMAIN pgDbs

\* C7 as claimed: in every reachable state the role user-{project} exists if and
\* only if the database db-{project} exists.
C7_RoleIffDatabase ==
    \A p \in Projects : RoleExists(p) <=> DbExists(p)

IsPgCall(r) == r.op \in {"provision_database", "delete_database"}
                  /\ r.db_type = "Shared" /\ r.engine = "Postgres"

\* C7, amended: in every reachable state the database db-{project} exists only
\* if the role user-{project} does; and when a shared-Postgres provision or
\* delete call for the project has returned success, the role exists if and
\* only if the database exists.
C7_RoleIffDatabaseAfterSuccess ==
    /\ \A p \in Projects : DbExists(p) => RoleExists(p)
    /\ \A t \in Tasks :
        (Done(t) /\ IsPgCall(req[t]) /\ result[t].tag = "Ok")
            => (RoleExists(req[t].project_name) <=> DbExists(req[t].project_name))

C7_Witness ==
    \E t \in Tasks :
        /\ Done(t) /\ IsPgCall(req[t]) /\ req[t].op = "delete_database"
        /\ result[t].tag = "Ok"
        /\ HasPrev /\ Prev.result.tag = "Err" /\ Prev.req.op = "provision_database"
        /\ ~RoleExists(req[t].project_name) /\ ~DbExists(req[t].project_name)

IsStoreProvision(r) == r.op = "provision_database" /\ r.db_type \in {"Shared", "AwsRds"}

SameResource(r1, r2) ==
    /\ r1.project_name = r2.project_name
    /\ r1.db_type = r2.db_type
    /\ r1.engine = r2.engine

\* the password a login to the resource of request r has to give (0: no account)
StorePassword(r) ==
    IF r.db_type = "Shared" THEN SharedPassword(r)
    ELSE IF InstanceName(r.project_name, r.engine) \in DOMAIN rds
         THEN rds[InstanceName(r.project_name, r.engine)].password
         ELSE 0

\* C8: when a shared-DB or RDS provision call has returned success (one call at
\* a time), the password it returned is the one set on the role, user or master
\* account in the store, and no password that an earlier successful provision
\* of the same resource returned is the one set there.
C8_ReturnedPasswordIsLive ==
    (Done(1) /\ IsStoreProvision(req[1]) /\ result[1].tag = "Ok")
        => /\ StorePassword(req[1]) = result[1].body.password
           /\ \A i \in 1..Len(hist) :
                (/\ IsStoreProvision(hist[i].req)
                 /\ SameResource(hist[i].req, req[1])
                 /\ hist[i].result.tag = "Ok")
                    => hist[i].result.body.password # StorePassword(req[1])

C8_Witness ==
    /\ Done(1) /\ IsStoreProvision(req[1]) /\ req[1].db_type = "AwsRds"
    /\ result[1].tag = "Ok"
    /\ HasPrev /\ IsStoreProvision(Prev.req) /\ SameResource(Prev.req, req[1])
    /\ Prev.result.tag = "Ok"
    /\ StorePassword(req[1]) = result[1].body.password
    /\ Count(issued[1], "ModifyDBInstance") = 1

IsDynamoProvision(r) == r.op = "provision_dynamo_db"

KeyPair(res) == <<res.body.aws_access_key_id, res.body.aws_secret_access_key>>

\* C9: a request_dynamodb that directly follows a successful request_dynamodb
\* of the same project, and meets no backend fault, succeeds and returns the
\* same access-key pair; it finds the pair in the state file and does not call
\* CreateAccessKey.
C9_DynamoProvisionIdempotent ==
    (/\ Done(1) /\ HasPrev
     /\ IsDynamoProvision(req[1])
     /\ Prev.req = req[1]
     /\ Prev.result.tag = "Ok"
     /\ NoFault(issued[1]))
        => /\ result[1].tag = "Ok"
           /\ KeyPair(result[1]) = KeyPair(Prev.result)
           /\ Count(issued[1], "CreateAccessKey") = 0
           /\ \E i \in 1..Len(issued[1]) :
                issued[1][i] = <<"file", "open",
                                 get_access_key_file_name(get_prefix(req[1].project_name)),
                                 "some">>

C9_Witness ==
    /\ Done(1) /\ HasPrev
    /\ IsDynamoProvision(req[1])
    /\ Prev.req = req[1]
    /\ Prev.result.tag = "Ok"
    /\ Count(Prev.issued, "CreateAccessKey") = 1
    /\ result[1].tag = "Ok"
    /\ KeyPair(result[1]) = KeyPair(Prev.result)

FileExists(p) == get_access_key_file_name(get_prefix(p)) \in DOMAIN files

LiveKeys(p) == KeysOf(get_iam_identity_user_name(get_prefix(p)))

KeyFileConsistent(p) ==
    IF FileExists(p)
    THEN \E k \in iamKeys :
            /\ LiveKeys(p) = {k}
            /\ get_saved_access_key(get_prefix(p)) = <<k.id, k.secret>>
    ELSE LiveKeys(p) = {}

\* this step issued a backend call or file operation that failed
StepFault ==
    \E t \in Tasks : \E i \in 1..Len(issued'[t]) :
        /\ i > Len(issued[t])
        /\ issued'[t][i][4] \in EnvFaults

IsDynamoDelete(r) == r.op = "delete_dynamo_db"

\* C11: when a delete_dynamodb(p) that directly follows a successful
\* request_dynamodb(p) has returned success, there is no state file for
\* prefix(p) and get_saved_access_key returns None.
C11_DeleteRemovesKeyFile ==
    (/\ Done(1) /\ HasPrev
     /\ IsDynamoDelete(req[1]) /\ result[1].tag = "Ok"
     /\ IsDynamoProvision(Prev.req) /\ Prev.result.tag = "Ok"
     /\ Prev.req.project_name = req[1].project_name)
        => /\ ~FileExists(req[1].project_name)
           /\ get_saved_access_key(get_prefix(req[1].project_name)) = None

C11_Witness ==
    /\ Done(1) /\ HasPrev
    /\ IsDynamoDelete(req[1]) /\ result[1].tag = "Ok"
    /\ IsDynamoProvision(Prev.req) /\ Prev.result.tag = "Ok"
    /\ Prev.req.project_name = req[1].project_name
    /\ Count(issued[1], "remove") = 1
    /\ ~FileExists(req[1].project_name)

\* C12: request_dynamodb(p), delete_dynamodb(p), request_dynamodb(p) in
\* succession, all successful: the third call has issued one CreateAccessKey
\* and returns the pair of the key it created, which differs from the pair the
\* first call returned.
C12_ReprovisionGivesFreshKey ==
    (/\ Done(1) /\ Len(hist) = 2
     /\ IsDynamoProvision(req[1]) /\ result[1].tag = "Ok"
     /\ IsDynamoDelete(hist[2].req) /\ hist[2].result.tag = "Ok"
     /\ IsDynamoProvision(hist[1].req) /\ hist[1].result.tag = "Ok"
     /\ hist[1].req.project_name = req[1].project_name
     /\ hist[2].req.project_name = req[1].project_name)
        => /\ Count(issued[1], "CreateAccessKey") = 1
           /\ KeyPair(result[1]) # KeyPair(hist[1].result)
           /\ \E k \in LiveKeys(req[1].project_name) :
                /\ KeyPair(result[1]) = <<k.id, k.secret>>
                /\ k = NewKey(k.user, keyCount)

C12_Witness ==
    /\ Done(1) /\ Len(hist) = 2
    /\ IsDynamoProvision(req[1]) /\ result[1].tag = "Ok"
    /\ IsDynamoDelete(hist[2].req) /\ hist[2].result.tag = "Ok"
    /\ IsDynamoProvision(hist[1].req) /\ hist[1].result.tag = "Ok"
    /\ KeyPair(result[1]) # KeyPair(hist[1].result)

\* the pair the store of project "a" last took, as its caller noted it
LastSaved == loc[1].key

HasLineBreak(str) == \E i \in 1..Len(str) : str[i] \in {"\n", "\r"}

\* a pair that two lines of text hold: no line break in either part, and a
\* secret that is not empty
TwoLines(pair) ==
    /\ ~HasLineBreak(pair[1]) /\ ~HasLineBreak(pair[2])
    /\ pair[2] # <<>>

IsCleanup(r) == r.op \in {"delete_dynamodb_tables_by_prefix", "delete_dynamo_db"}

PrefixTables(p) == {n \in tables : StartsWith(n, get_prefix(p))}

\* task t returns from the cleanup with success in this step
CleanupReturnsOk(t) ==
    /\ pc[t] # "done" /\ pc'[t] = "done"
    /\ IsCleanup(req'[t]) /\ result'[t].tag = "Ok"

LastOutcome(iss) == iss[Len(iss)][4]

IsRdsProvision(r) == r.op = "provision_database" /\ r.db_type = "AwsRds"

\* the answers ModifyDBInstance gave in the current call of task t
ModifyAnswers(t) ==
    {issued[t][i][4] : i \in {j \in 1..Len(issued[t]) : issued[t][j][2] = "ModifyDBInstance"}}

\* C15: in an RDS provision, CreateDBInstance is issued only right after
\* ModifyDBInstance answered DbInstanceNotFoundFault; when ModifyDBInstance
\* succeeded (the instance exists) no CreateDBInstance is issued and a call
\* that meets no failure returns the connection tuple with the rotated master
\* password; when ModifyDBInstance failed otherwise the call has failed with
\* kind Plain having issued nothing but the ModifyDBInstance.
C15_ModifyThenCreateOnNotFound ==
    \A t \in Tasks :
        IsRdsProvision(req[t]) =>
            /\ \A i \in 1..Len(issued[t]) :
                issued[t][i][2] = "CreateDBInstance"
                    => /\ i = 2
                       /\ issued[t][1][2] = "ModifyDBInstance"
                       /\ issued[t][1][4] = "not_found"
            /\ Count(issued[t], "ModifyDBInstance") <= 1
            /\ ModifyAnswers(t) = {"ok"} =>
                /\ Count(issued[t], "CreateDBInstance") = 0
                /\ (Done(t) /\ NoFault(issued[t]))
                     => /\ result[t].tag = "Ok"
                        /\ StorePassword(req[t]) = result[t].body.password
            /\ (ModifyAnswers(t) # {} /\ ModifyAnswers(t) \cap {"ok", "not_found"} = {}) =>
                /\ Done(t)
                /\ result[t].tag = "Err" /\ result[t].kind = "Plain"
                /\ Len(issued[t]) = 1

C15_Witness ==
    \E t \in Tasks :
        /\ IsRdsProvision(req[t]) /\ Done(t) /\ result[t].tag = "Ok"
        /\ ModifyAnswers(t) = {"ok"}
        /\ Count(issued[t], "CreateDBInstance") = 0
        /\ Count(issued[t], "DescribeDBInstances") >= 2
        /\ StorePassword(req[t]) = result[t].body.password

IsRdsDelete(r) == r.op = "delete_database" /\ r.db_type = "AwsRds"

\* the service errors of DeleteDBInstance other than DbInstanceNotFoundFault
OtherServiceErrors == {"service_error", "invalid_state"}

\* C16: delete_aws_rds issues one DeleteDBInstance; when it reported
\* DbInstanceNotFoundFault the call has returned the deletion acknowledgement,
\* and when it reported any other service error the call has failed with kind
\* Plain.
C16_RdsDeleteSwallowsNotFound ==
    \A t \in Tasks :
        (IsRdsDelete(req[t]) /\ Done(t)) =>
            /\ Len(issued[t]) = 1
            /\ issued[t][1][2] = "DeleteDBInstance"
            /\ issued[t][1][3] = InstanceName(req[t].project_name, req[t].engine)
            /\ LastOutcome(issued[t]) = "not_found"
                 => result[t] = OkResult([deleted |-> TRUE])
            /\ LastOutcome(issued[t]) \in OtherServiceErrors
                 => (result[t].tag = "Err" /\ result[t].kind = "Plain")

C16_Witness ==
    /\ IsRdsDelete(req[1]) /\ Done(1)
    /\ LastOutcome(issued[1]) = "not_found"
    /\ result[1].tag = "Ok"
    /\ HasPrev /\ Prev.req = req[1]
    /\ Prev.result.tag = "Ok" /\ LastOutcome(Prev.issued) = "ok"

\* both tasks have returned from a provision of the same shared database, and
\* no backend call of either failed for a reason of the backend's own
BothProvisioned ==
    /\ Done(1) /\ Done(2)
    /\ IsSharedProvision(req[1]) /\ req[2] = req[1]
    /\ req[1].engine \in {"Postgres", "Mongodb"}
    /\ NoFault(issued[1]) /\ NoFault(issued[2])

\* the call of task t lost a creation to the other call: its last statement was
\* a CREATE that the cluster refused because the object was there by then
LostCreate(t) ==
    /\ result[t].tag = "Err"
    /\ issued[t] # <<>>
    /\ issued[t][Len(issued[t])][2] \in {"CREATE ROLE", "CREATE DATABASE"}
    /\ LastOutcome(issued[t]) = "refused"

\* C17 as stated: when two provision calls for the same project and the same
\* shared engine have both returned, however their queries and commands
\* interleaved, both have succeeded with the same username and database_name,
\* and exactly one of the two passwords they returned is the one set in the store.
C17_ConcurrentProvisionsConverge ==
    BothProvisioned =>
        /\ result[1].tag = "Ok" /\ result[2].tag = "Ok"
        /\ result[1].body.username = result[2].body.username
        /\ result[1].body.database_name = result[2].body.database_name
        /\ result[1].body.password # result[2].body.password
        /\ SharedPassword(req[1]) \in {result[1].body.password, result[2].body.password}

\* C17 amended: when two provision calls for the same project and the same
\* shared engine have both returned, at least one has succeeded; a call that
\* did not succeed is a Postgres call whose CREATE ROLE or CREATE DATABASE was
\* refused (MongoDB calls both succeed); and when both succeeded they returned
\* the same username and database_name and two different passwords, of which
\* exactly one is the one set in the store.
C17_ConcurrentProvisionsConvergeOrLoseCreate ==
    BothProvisioned =>
        /\ result[1].tag = "Ok" \/ result[2].tag = "Ok"
        /\ \A t \in Tasks :
               result[t].tag # "Ok" => (req[t].engine = "Postgres" /\ LostCreate(t))
        /\ (result[1].tag = "Ok" /\ result[2].tag = "Ok") =>
               /\ result[1].body.username = result[2].body.username
               /\ result[1].body.database_name = result[2].body.database_name
               /\ result[1].body.password # result[2].body.password
               /\ SharedPassword(req[1]) \in
                      {result[1].body.password, result[2].body.password}

\* two overlapping Postgres calls: task 2 lost a CREATE to task 1, task 1
\* succeeded, and the password task 1 returned is not the one set on the role
C17_Witness ==
    /\ BothProvisioned
    /\ result[1].tag = "Ok"
    /\ LostCreate(2)
    /\ SharedPassword(req[1]) # result[1].body.password

IsProvision(r) == IsStoreProvision(r) \/ IsDynamoProvision(r)

\* the state an uninterrupted provision of request r, answered with res, ends in
Provisioned(r, res) ==
    LET p == r.project_name IN
    CASE IsDynamoProvision(r) ->
           /\ get_dynamodb_policy_name(get_prefix(p)) \in iamPolicies
           /\ get_iam_identity_user_name(get_prefix(p)) \in iamUsers
           /\ <<get_iam_identity_user_name(get_prefix(p)),
                PolicyArn(Account, get_dynamodb_policy_name(get_prefix(p)))>> \in iamAttached
           /\ FileExists(p)
           /\ KeyFileConsistent(p)
           /\ get_saved_access_key(get_prefix(p)) = KeyPair(res)
      [] r.db_type = "Shared" /\ r.engine = "Postgres" ->
           /\ RoleExists(p)
           /\ DbExists(p)
           /\ pgDbs[DbName(p)].owner = RoleName(p)
           /\ pgDbs[DbName(p)].revoked = RevokeStmts
           /\ SharedPassword(r) = res.body.password
      [] r.db_type = "Shared" /\ r.engine = "Mongodb" ->
           SharedPassword(r) = res.body.password
      [] r.db_type = "AwsRds" ->
           /\ InstanceName(p, r.engine) \in DOMAIN rds
           /\ rds[InstanceName(p, r.engine)].status = "available"
           /\ StorePassword(r) = res.body.password

\* C18: a provision that is invoked again after the same provision was abandoned
\* at a failed step, and whose own backend calls meet no fault (the service
\* having a region configured), returns success and leaves the state of an uninterrupted provision (for DynamoDB: policy,
\* user, attachment and exactly one live access key, the one in the state file).
C18_ReinvokedProvisionRecovers ==
    (/\ Done(1) /\ HasPrev
     /\ IsProvision(req[1])
     /\ Prev.req = req[1]
     /\ Prev.result.tag = "Err"
     /\ region # NoRegion
     /\ NoFault(issued[1]))
        => /\ result[1].tag = "Ok"
           /\ Provisioned(req[1], result[1])

IsSharedDelete(r) == r.op = "delete_database" /\ r.db_type = "Shared"

\* the first removal of each delete workflow
FirstRemovals == {"DetachUserPolicy", "DROP DATABASE", "dropAllUsersFromDatabase"}

\* the finished call h carried out its first removal and then failed
AbandonedDelete(h) ==
    /\ IsDynamoDelete(h.req) \/ IsSharedDelete(h.req)
    /\ h.result.tag = "Err"
    /\ \E i \in 1..Len(h.issued) :
           h.issued[i][2] \in FirstRemovals /\ h.issued[i][4] = "ok"

\* nothing of the project of request r is left
NothingLeft(r) ==
    LET p == r.project_name IN
    CASE IsDynamoDelete(r) ->
           /\ get_dynamodb_policy_name(get_prefix(p)) \notin iamPolicies
           /\ get_iam_identity_user_name(get_prefix(p)) \notin iamUsers
           /\ \A a \in iamAttached : a[1] # get_iam_identity_user_name(get_prefix(p))
           /\ LiveKeys(p) = {}
           /\ ~FileExists(p)
           /\ PrefixTables(p) = {}
      [] r.engine = "Postgres" -> ~RoleExists(p) /\ ~DbExists(p)
      [] r.engine = "Mongodb" -> \A k \in DOMAIN mongoUsers : k[1] # MongoDbName(p)

\* C19: a delete (delete_dynamodb, delete_pg, delete_mongodb) that is invoked
\* again after the same delete was abandoned part-way, and whose backend calls
\* fail only where an object is missing or in the way, returns success and
\* leaves none of the project's resources behind.
C19_ReinvokedDeleteRecovers ==
    (/\ Done(1) /\ HasPrev
     /\ AbandonedDelete(Prev)
     /\ req[1] = Prev.req
     /\ NoFault(issued[1]))
        => /\ result[1].tag = "Ok"
           /\ NothingLeft(req[1])

\* C20: a step that receives a health_check request, whatever claim the
\* request carries, returns success in that same step, issues no backend call
\* and leaves every backend as it was.
C20_HealthCheckAlwaysOk ==
    [][(calls' = calls + 1 /\ req'[1].op = "health_check")
          => /\ pc'[1] = "done"
             /\ result'[1] = OkResult([pong |-> TRUE])
             /\ issued'[1] = <<>>
             /\ backend' = backend]_vars

C20_Witness ==
    /\ Done(1)
    /\ req[1].op = "health_check"
    /\ req[1].claim = NoClaim
    /\ result[1].tag = "Ok"
    /\ issued[1] = <<>>
    /\ calls = 2
    /\ pgRoles # Empty

\* the calls of request_dynamodb in program order (GetCallerIdentity is the
\* get_policy_arn inside attach_user_policy; open and create are the state file)
ProvisionOrder ==
    <<"CreatePolicy", "CreateUser", "GetCallerIdentity", "AttachUserPolicy", "open",
      "CreateAccessKey", "create">>

\* the outcomes after which the workflow goes on to its next step
Succeeded(call) == call[4] \in {"ok", "exists", "some", "none"}

\* C21: the calls a request_dynamodb has issued are an initial part of
\* CreatePolicy, CreateUser, (GetCallerIdentity,) AttachUserPolicy, read of the
\* state file, CreateAccessKey, write of the state file; every call but the last
\* succeeded (EntityAlreadyExists counting as success); CreateAccessKey is
\* issued only when the read found no key; a failed last call ends the request
\* with an error; and success is returned only after the key was obtained.
C21_DynamoProvisionInOrder ==
    \A t \in Tasks :
        (IsDynamoProvision(req[t]) /\ ~Rejected(req[t])) =>
            /\ Len(issued[t]) <= Len(ProvisionOrder)
            /\ \A i \in 1..Len(issued[t]) :
                   /\ issued[t][i][2] = ProvisionOrder[i]
                   /\ i < Len(issued[t]) => Succeeded(issued[t][i])
                   /\ issued[t][i][2] = "CreateAccessKey" => issued[t][i - 1][4] = "none"
            /\ (issued[t] # <<>> /\ ~Succeeded(issued[t][Len(issued[t])]))
                   => (Done(t) /\ result[t].tag = "Err")
            /\ (Done(t) /\ result[t].tag = "Ok") =>
                   \/ Len(issued[t]) = 5 /\ LastOutcome(issued[t]) = "some"
                   \/ Len(issued[t]) = 7 /\ LastOutcome(issued[t]) = "ok"

C21_Witness ==
    /\ IsDynamoProvision(req[1]) /\ Done(1) /\ result[1].tag = "Ok"
    /\ Len(issued[1]) = 7
    /\ issued[1][1][4] = "exists" /\ issued[1][2][4] = "exists"
    /\ HasPrev /\ IsDynamoProvision(Prev.req) /\ Prev.result.tag = "Err"
    /\ Len(Prev.issued) = 4 /\ LastOutcome(Prev.issued) = "fault"

\* the step of delete_dynamodb a call belongs to (0: the GetCallerIdentity that
\* computes the policy ARN for DetachUserPolicy and for DeletePolicy)
DeleteStep(call) ==
    CASE call[2] = "DetachUserPolicy" -> 1
      [] call[2] \in {"open", "CreateAccessKey", "create"} -> 2
      [] call[2] = "DeleteAccessKey" -> 3
      [] call[2] = "remove" -> 4
      [] call[2] = "DeleteUser" -> 5
      [] call[2] = "DeletePolicy" -> 6
      [] call[2] \in {"ListTables", "DeleteTable"} -> 7
      [] OTHER -> 0

\* a call of step n that succeeded is among the first i - 1 calls of iss
DoneBefore(iss, i, n) ==
    \E j \in 1..(i - 1) : DeleteStep(iss[j]) = n /\ iss[j][4] = "ok"

\* C22: the calls a delete_dynamodb has issued come in the order
\* DetachUserPolicy, DeleteAccessKey, removal of the state file, DeleteUser,
\* DeletePolicy, table cleanup; every call but the last succeeded; the state
\* file is removed only after DeleteAccessKey succeeded, DeleteUser is issued
\* only after DetachUserPolicy and DeleteAccessKey succeeded; and success is
\* returned only after all of them succeeded.
C22_DynamoDeleteInOrder ==
    \A t \in Tasks :
        (IsDynamoDelete(req[t]) /\ ~Rejected(req[t])) =>
            LET iss == issued[t] IN
            /\ \A i, j \in 1..Len(iss) :
                   (i < j /\ DeleteStep(iss[i]) # 0 /\ DeleteStep(iss[j]) # 0)
                       => /\ DeleteStep(iss[i]) <= DeleteStep(iss[j])
                          /\ DeleteStep(iss[j]) \in {1, 3, 4, 5, 6}
                               => DeleteStep(iss[i]) < DeleteStep(iss[j])
            /\ \A i \in 1..Len(iss) :
                   /\ i < Len(iss) => Succeeded(iss[i])
                   /\ DeleteStep(iss[i]) = 4 => DoneBefore(iss, i, 3)
                   /\ DeleteStep(iss[i]) = 5 =>
                          /\ DoneBefore(iss, i, 1)
                          /\ DoneBefore(iss, i, 3)
                          /\ DoneBefore(iss, i, 4)
                   /\ DeleteStep(iss[i]) = 6 => DoneBefore(iss, i, 5)
                   /\ DeleteStep(iss[i]) = 7 => DoneBefore(iss, i, 6)
            /\ (Done(t) /\ result[t].tag = "Ok") =>
                   /\ DoneBefore(iss, Len(iss), 6)
                   /\ DeleteStep(iss[Len(iss)]) = 7

C22_Witness ==
    /\ IsDynamoDelete(req[1]) /\ Done(1) /\ result[1].tag = "Ok"
    /\ \A n \in {1, 3, 4, 5, 6} : DoneBefore(issued[1], Len(issued[1]), n)
    /\ Count(issued[1], "DeleteTable") = 2
    /\ HasPrev /\ IsDynamoProvision(Prev.req) /\ Prev.result.tag = "Ok"

\* C23: a delete_dynamodb issues no CreateAccessKey and no write of the state
\* file, whether or not the state file existed when it started.
C23_DeleteNeverCreatesKey ==
    \A t \in Tasks :
        IsDynamoDelete(req[t]) =>
            /\ Count(issued[t], "CreateAccessKey") = 0
            /\ Count(issued[t], "create") = 0

\* C24: in a prefix cleanup every DeleteTable names a table that begins with
\* the prefix, the table about to be deleted begins with the prefix, and every
\* ListTables starts from the prefix or from a returned name that begins with
\* the prefix: no page is requested once a returned name was outside the range.
C24_CleanupStaysInPrefixRange ==
    \A t \in Tasks :
        IsCleanup(req[t]) =>
            /\ \A i \in 1..Len(issued[t]) :
                   issued[t][i][2] \in {"DeleteTable", "ListTables"}
                       => StartsWith(issued[t][i][3], get_prefix(req[t].project_name))
            /\ pc[t] = "tables_delete"
                   => StartsWith(Head(loc[t].page), get_prefix(req[t].project_name))
            /\ pc[t] = "tables_list"
                   => StartsWith(loc[t].cursor, get_prefix(req[t].project_name))

\* two pages were listed, the tables of the prefix are gone, and the tables
\* before and after the prefix range are still there
C24_Witness ==
    /\ IsCleanup(req[1]) /\ Done(1)
    /\ Count(issued[1], "ListTables") >= 2
    /\ Count(issued[1], "DeleteTable") = 3
    /\ PrefixTables("a") = {}
    /\ {<<"L">>, get_prefix("b")} \subseteq tables

IsDirectCleanup(r) == r.op = "delete_dynamodb_tables_by_prefix"

\* the last call of iss is the DeleteTable of the bare prefix of request r
EndsWithFinalDelete(r, iss) ==
    /\ iss # <<>>
    /\ iss[Len(iss)][2] = "DeleteTable"
    /\ iss[Len(iss)][3] = get_prefix(r.project_name)

\* C25 as stated: every invocation of the prefix cleanup that has returned
\* issued the final DeleteTable(prefix) and returned success, whatever the
\* outcome of that call.
C25_FinalDeleteAlwaysIssued ==
    \A t \in Tasks :
        (IsDirectCleanup(req[t]) /\ Done(t)) =>
            /\ EndsWithFinalDelete(req[t], issued[t])
            /\ result[t].tag = "Ok"

\* C25 amended: an invocation of the prefix cleanup returns success exactly
\* when its last call is the final DeleteTable(prefix), whatever the outcome of
\* that call; an invocation that returns an error stopped at a failed
\* ListTables or a failed DeleteTable of the loop and issued no final call; the
\* final call is issued at most once, after every other call.
C25_FinalDeleteAfterLoopIgnored ==
    \A t \in Tasks :
        IsDirectCleanup(req[t]) =>
            /\ \A i \in 1..Len(issued[t]) :
                   (issued[t][i][2] = "DeleteTable"
                      /\ issued[t][i][3] = get_prefix(req[t].project_name))
                       => (i = Len(issued[t]) /\ Done(t))
            /\ Done(t) =>
                   /\ result[t].tag = "Ok" <=> EndsWithFinalDelete(req[t], issued[t])
                   /\ result[t].tag \in {"Ok", "Err"}
                   /\ result[t].tag = "Err" =>
                          (issued[t] # <<>> /\ ~Succeeded(issued[t][Len(issued[t])]))

\* the loop deleted a table, the final call failed, the cleanup returned success
C25_Witness ==
    /\ IsDirectCleanup(req[1]) /\ Done(1)
    /\ result[1].tag = "Ok"
    /\ EndsWithFinalDelete(req[1], issued[1])
    /\ LastOutcome(issued[1]) = "fault"
    /\ Count(issued[1], "DeleteTable") = 2
    /\ get_prefix("a") \in tables

\* task t is inside wait_for_instance and this step is one of its polls
PollStep(t) ==
    /\ pc[t] = "rds_wait"
    /\ <<pc[t], loc[t], issued[t], result[t]>>' # <<pc[t], loc[t], issued[t], result[t]>>

\* the answer of the poll made in this step
PollAnswer(t) == issued'[t][Len(issued'[t])]

\* wait_for_instance returns its description in this step: to request_aws_rds,
\* which goes on to wait for "available", or as the result of the provision
WaitReturns(t) ==
    \/ loc'[t].wait_for # loc[t].wait_for
    \/ pc'[t] = "done" /\ result'[t].tag = "Ok"

\* C26: a poll of wait_for_instance(name, wait_for) is a DescribeDBInstances of
\* name; wait_for_instance returns at that poll exactly when the status it
\* reports equals wait_for, with the description of that poll; while the status
\* differs it stays in the loop, waiting for the same status; and a
\* DescribeDBInstances error ends the call with that error.
C26_WaitReturnsOnlyMatchingStatus ==
    [][\A t \in Tasks :
          PollStep(t) =>
              LET n == loc[t].instance_name
                  answer == PollAnswer(t)[4] IN
              /\ PollAnswer(t)[2] = "DescribeDBInstances"
              /\ PollAnswer(t)[3] = n
              /\ WaitReturns(t) <=> answer = loc[t].wait_for
              /\ WaitReturns(t) => (n \in DOMAIN rds /\ rds[n].status = loc[t].wait_for)
              /\ (pc'[t] = "done" /\ result'[t].tag = "Ok")
                    => /\ loc[t].wait_for = "available"
                       /\ result'[t].body = RdsResponse(loc[t], req[t], rds[n])
              /\ answer \notin {"fault", "not_found", loc[t].wait_for}
                    => (pc'[t] = "rds_wait" /\ loc'[t].wait_for = loc[t].wait_for)
              /\ answer \in {"fault", "not_found"}
                    => (pc'[t] = "done" /\ result'[t] = ErrorToStatus("DescribeRDSInstance"))
      ]_vars

\* a provision whose first poll saw "available" before the reset had begun and
\* went on polling, then saw the transient status, then "available"
C26_Witness ==
    /\ IsRdsProvision(req[1]) /\ Done(1) /\ result[1].tag = "Ok"
    /\ Len(issued[1]) = 4
    /\ issued[1][1][2] = "ModifyDBInstance"
    /\ issued[1][2][4] = "available"
    /\ issued[1][3][4] = "resetting-master-credentials"
    /\ issued[1][4][4] = "available"

\* the provision of task 1 has returned: with the connection tuple, or with the
\* error of a failed DescribeDBInstances
RdsProvisionReturned ==
    /\ Done(1)
    /\ \/ result[1].tag = "Ok"
       \/ LastOutcome(issued[1]) \in {"fault", "not_found"}

\* C27: once ModifyDBInstance or CreateDBInstance has succeeded and
\* request_aws_rds waits for the instance, polls being answered and the
\* instance leaving its transient status and then staying available,
\* request_aws_rds eventually returns the connection tuple (or the error of a
\* failed DescribeDBInstances).
C27_RdsProvisionTerminates ==
    (IsRdsProvision(req[1]) /\ pc[1] = "rds_wait") ~> RdsProvisionReturned

\* C28: delete_aws_rds has returned the deletion acknowledgement only if its
\* DeleteDBInstance succeeded or reported DbInstanceNotFoundFault; after any
\* other outcome of the call, a non-service failure included, it has failed.
C28_RdsDeleteFailsOnOtherErrors ==
    \A t \in Tasks :
        (IsRdsDelete(req[t]) /\ Done(t)) =>
            /\ result[t].tag = "Ok" => LastOutcome(issued[t]) \in {"ok", "not_found"}
            /\ LastOutcome(issued[t]) \notin {"ok", "not_found"} => result[t].tag = "Err"

IsMongoProvision(r) == IsSharedProvision(r) /\ r.engine = "Mongodb"

\* the createUser errors whose text contains 51003
Has51003 == {"51003", "fault 51003"}

\* C29: a MongoDB provision issues createUser first and at most one updateUser
\* after it; updateUser is issued exactly when createUser failed with an error
\* containing 51003; the call then succeeds, with the new password set, if
\* updateUser succeeds and fails if it does not; after any other createUser
\* error the call has failed with UnexpectedMongodb and issued nothing more;
\* after a successful createUser it has succeeded and issued nothing more.
C29_MongoUpdateIffUserExists ==
    \A t \in Tasks :
        (IsMongoProvision(req[t]) /\ ~Rejected(req[t]) /\ issued[t] # <<>>) =>
            LET iss == issued[t] IN
            /\ iss[1][2] = "createUser"
            /\ Len(iss) <= 2
            /\ Len(iss) = 2 => (iss[2][2] = "updateUser" /\ iss[1][4] \in Has51003 /\ Done(t))
            /\ iss[1][4] \in Has51003 =>
                   \/ Len(iss) = 1 /\ pc[t] = "mongo_update_user"
                   \/ /\ Len(iss) = 2
                      /\ iss[2][4] = "ok" =>
                             /\ result[t] = OkResult(MongoResponse(loc[t]))
                             /\ SharedPassword(req[t]) = loc[t].password
                      /\ iss[2][4] # "ok" => result[t].tag = "Err"
            /\ iss[1][4] = "ok" =>
                   (Len(iss) = 1 /\ Done(t) /\ result[t] = OkResult(MongoResponse(loc[t])))
            /\ iss[1][4] \notin Has51003 \cup {"ok"} =>
                   /\ Len(iss) = 1 /\ Done(t)
                   /\ result[t] = ErrorToStatus("UnexpectedMongodb")

\* the user existed: createUser reported 51003, updateUser set the new password
C29_Witness ==
    /\ IsMongoProvision(req[1]) /\ Done(1) /\ result[1].tag = "Ok"
    /\ Len(issued[1]) = 2
    /\ issued[1][1][4] = "51003" /\ issued[1][2][4] = "ok"
    /\ HasPrev /\ Prev.req = req[1] /\ Prev.result.tag = "Ok"
    /\ Prev.result.body.password # result[1].body.password
    /\ SharedPassword(req[1]) = result[1].body.password

IsPgDelete(r) == IsSharedDelete(r) /\ r.engine = "Postgres"

\* the statement task t has executed in this step
Executed(t) == issued'[t][Len(issued'[t])]

\* C30: the first statement of a Postgres delete is DROP DATABASE of
\* db-{project}; if it fails the call fails with kind DeleteRole, having issued
\* nothing else, and roles and databases are as before; if it succeeds the
\* second statement is DROP ROLE IF EXISTS of user-{project}; if that fails the
\* call fails with kind DeleteDB, and if it succeeds the call succeeds and the
\* role is gone.
C30_PgDeleteOrderAndKinds ==
    [][\A t \in Tasks :
          (IsPgDelete(req[t]) /\ pc[t] \in {"pg_drop_db", "pg_drop_role"} /\ pc'[t] # pc[t]) =>
              LET p == req[t].project_name IN
              IF pc[t] = "pg_drop_db"
              THEN /\ Len(issued'[t]) = 1
                   /\ Executed(t)[2] = "DROP DATABASE"
                   /\ Executed(t)[3] = DbName(p)
                   /\ IF Executed(t)[4] = "ok"
                      THEN pc'[t] = "pg_drop_role" /\ DbName(p) \notin DOMAIN pgDbs'
                      ELSE /\ pc'[t] = "done"
                           /\ result'[t] = ErrorToStatus("DeleteRole")
                           /\ pgRoles' = pgRoles
                           /\ pgDbs' = pgDbs
              ELSE /\ Len(issued'[t]) = 2
                   /\ issued'[t][1] = issued[t][1]
                   /\ issued[t][1][4] = "ok"
                   /\ Executed(t)[2] = "DROP ROLE IF EXISTS"
                   /\ Executed(t)[3] = RoleName(p)
                   /\ pc'[t] = "done"
                   /\ IF Executed(t)[4] = "ok"
                      THEN result'[t].tag = "Ok" /\ RoleName(p) \notin DOMAIN pgRoles'
                      ELSE result'[t] = ErrorToStatus("DeleteDB") /\ pgRoles' = pgRoles
      ]_vars

\* DROP DATABASE failed after a successful provision: kind DeleteRole, one
\* statement issued, role and database still there
C30_Witness ==
    /\ IsPgDelete(req[1]) /\ Done(1)
    /\ result[1] = ErrorToStatus("DeleteRole")
    /\ Len(issued[1]) = 1 /\ issued[1][1][2] = "DROP DATABASE"
    /\ RoleExists(req[1].project_name) /\ DbExists(req[1].project_name)
    /\ HasPrev /\ IsPgProvision(Prev.req) /\ Prev.result.tag = "Ok"

\* C31: whenever a shared-Postgres provision has returned success, the
\* database db-{project} exists and the three statements REVOKE ALL ON pg_user,
\* pg_roles and pg_database FROM public have been executed on it, in that
\* order, whether or not an earlier provision of the project had failed after
\* CREATE DATABASE.
C31_RevokesNeverSkipped ==
    \A t \in Tasks :
        (IsPgProvision(req[t]) /\ Done(t) /\ result[t].tag = "Ok") =>
            /\ DbExists(req[t].project_name)
            /\ pgDbs[DbName(req[t].project_name)].revoked = RevokeStmts

=============================================================================
